---- MODULE Spec2Model ----
(***************************************************************************)
(* State-machine model of the Sudoku solving core: Board and Validator,    *)
(* the ordered strategy pipeline of StrategicSolver, the                   *)
(* SudokuStateMachine loop, BacktrackingSolver and SolverUtil.solve_puzzle.*)
(*                                                                         *)
(* Conventions.  A cell is addressed by its row-major index i in 0..80     *)
(* (row = i \div 9, col = i % 9).  Python's None in Board.cells is the     *)
(* value 0 (string_to_board maps the character '0' to None and no other    *)
(* character to 0).  A proposal of a "Value Finder" is the ordered list    *)
(* of <<row, col, value>> the code returns; a proposal of a "Candidate     *)
(* Eliminator" is kept as the set of its <<row, col, candidate>> entries,  *)
(* because apply_strategy removes each entry independently and the logger  *)
(* never records their order.                                              *)
(***************************************************************************)
EXTENDS Integers, Sequences, FiniteSets, TLC

\* ------------------------------------------------------------------------
\* Inputs
\* ------------------------------------------------------------------------

\* solve.py:11 default puzzle
Puzzle1 ==
  <<"3","0","9","0","0","0","4","0","0","2","0","0","7","0","9","0","0","0","0","8","7",
  "0","0","0","0","0","0","7","5","0","0","6","0","2","3","0","6","0","0","9","0","4","0",
  "0","8","0","2","8","0","5","0","0","4","1","0","0","0","0","0","0","5","9","0","0","0",
  "0","1","0","6","0","0","7","0","0","6","0","0","0","1","0","4">>

\* the completed grid of Puzzle1: an input without empty cells
SolvedGrid ==
  <<"3","6","9","2","1","8","4","7","5","2","1","5","7","4","9","8","6","3","4","8","7",
  "6","3","5","9","1","2","7","5","4","8","6","1","2","3","9","6","3","1","9","2","4","7",
  "5","8","9","2","8","3","5","7","6","4","1","1","7","3","4","8","2","5","9","6","5","4",
  "2","1","9","6","3","8","7","8","9","6","5","7","3","1","2","4">>

\* Puzzle1 without its last character: 80 characters
ShortString ==
  <<"3","0","9","0","0","0","4","0","0","2","0","0","7","0","9","0","0","0","0","8","7",
  "0","0","0","0","0","0","7","5","0","0","6","0","2","3","0","6","0","0","9","0","4","0",
  "0","8","0","2","8","0","5","0","0","4","1","0","0","0","0","0","0","5","9","0","0","0",
  "0","1","0","6","0","0","7","0","0","6","0","0","0","1","0">>

\* Puzzle1 with a letter as second character
LetterString ==
  <<"3","x","9","0","0","0","4","0","0","2","0","0","7","0","9","0","0","0","0","8","7",
  "0","0","0","0","0","0","7","5","0","0","6","0","2","3","0","6","0","0","9","0","4","0",
  "0","8","0","2","8","0","5","0","0","4","1","0","0","0","0","0","0","5","9","0","0","0",
  "0","1","0","6","0","0","7","0","0","6","0","0","0","1","0","4">>

\* Puzzle1 with a second 5 in column 1 (rows 0 and 3); rows and boxes stay
\* duplicate free
DuplicateInColumn ==
  <<"3","5","9","0","0","0","4","0","0","2","0","0","7","0","9","0","0","0","0","8","7",
  "0","0","0","0","0","0","7","5","0","0","6","0","2","3","0","6","0","0","9","0","4","0",
  "0","8","0","2","8","0","5","0","0","4","1","0","0","0","0","0","0","5","9","0","0","0",
  "0","1","0","6","0","0","7","0","0","6","0","0","0","1","0","4">>

\* Puzzle1 with an 8 at row 8, column 3: no unit holds a digit twice, but
\* some empty cell is left without any legal digit
Contradictory ==
  <<"3","0","9","0","0","0","4","0","0","2","0","0","7","0","9","0","0","0","0","8","7",
  "0","0","0","0","0","0","7","5","0","0","6","0","2","3","0","6","0","0","9","0","4","0",
  "0","8","0","2","8","0","5","0","0","4","1","0","0","0","0","0","0","5","9","0","0","0",
  "0","1","0","6","0","0","7","0","0","6","8","0","0","1","0","4">>

\* Puzzle1 with a 4 at row 6, column 2: every empty cell has a legal digit,
\* but the grid has no completion
DeadEnd ==
  <<"3","0","9","0","0","0","4","0","0","2","0","0","7","0","9","0","0","0","0","8","7",
  "0","0","0","0","0","0","7","5","0","0","6","0","2","3","0","6","0","0","9","0","4","0",
  "0","8","0","2","8","0","5","0","0","4","1","0","0","4","0","0","0","5","9","0","0","0",
  "0","1","0","6","0","0","7","0","0","6","0","0","0","1","0","4">>

\* grids with several completions on which the rarer strategies are credited
PuzzleHiddenPairs ==
  <<"5","0","3","8","0","7","0","0","0","0","0","0","6","0","3","0","8","2","2","8","7",
  "4","1","0","3","6","5","9","0","0","0","0","4","6","0","0","0","1","0","5","0","0","8",
  "2","0","7","0","0","0","0","8","0","0","0","0","7","0","9","0","2","1","3","0","4","9",
  "2","0","6","1","5","7","8","6","3","0","7","8","5","2","0","0">>

PuzzleNakedTriples ==
  <<"0","0","4","7","6","9","3","0","0","1","3","2","0","4","0","0","0","0","0","9","6",
  "1","0","3","8","4","0","0","1","0","0","0","5","0","0","0","0","0","0","0","0","0","0",
  "0","0","0","5","8","4","0","0","0","3","0","0","4","7","9","1","0","2","0","3","3","2",
  "5","8","0","0","0","1","9","9","6","1","3","5","0","4","0","8">>

PuzzleSwordfish ==
  <<"2","7","1","8","5","0","3","0","0","8","0","0","0","0","0","0","0","7","0","0","0",
  "2","0","7","8","0","0","0","0","0","0","0","0","0","0","8","5","8","0","4","9","3","0",
  "6","2","1","0","6","0","0","8","0","0","3","0","0","0","9","0","4","0","3","1","6","0",
  "3","7","2","5","0","8","0","0","4","0","6","0","0","7","2","5">>

PuzzleRectangle ==
  <<"0","0","7","3","9","1","0","5","6","3","0","9","0","5","4","0","0","8","0","4","5",
  "0","7","0","0","0","3","0","0","8","0","0","5","0","0","0","0","0","6","0","0","0","0",
  "0","4","4","0","0","0","6","0","0","0","1","0","0","0","9","0","8","0","0","5","9","8",
  "2","5","1","3","6","0","7","0","0","1","0","4","6","0","0","0">>

PuzzleHiddenTriples ==
  <<"0","0","0","9","0","0","1","0","0","4","1","8","6","0","5","0","0","0","0","0","0",
  "4","0","0","0","6","0","0","0","0","0","8","6","5","0","0","2","5","0","0","0","0","8",
  "3","6","0","8","0","0","5","0","0","0","0","0","0","2","0","0","0","4","0","3","0","4",
  "0","0","0","2","9","0","0","0","0","0","0","0","0","6","0","0">>

PuzzleSimpleColoring ==
  <<"0","0","0","9","3","6","0","4","8","6","0","9","8","0","0","5","1","0","4","0","0",
  "0","0","0","0","6","9","7","0","1","6","0","0","0","0","4","0","0","0","0","0","7","0",
  "5","0","5","0","0","0","9","3","8","7","0","0","0","7","0","1","8","0","2","0","0","6",
  "0","0","0","0","0","0","5","0","1","5","0","0","2","4","9","7">>

PuzzleHiddenQuads ==
  <<"0","0","1","8","4","0","0","0","0","0","0","3","5","0","0","9","0","4","0","0","0",
  "0","7","0","0","0","0","0","3","0","0","1","0","8","7","0","0","1","0","0","0","0","6",
  "2","0","0","9","8","0","3","0","0","0","0","0","6","2","0","0","4","0","0","0","0","0",
  "0","0","0","2","4","0","5","0","5","4","3","8","7","0","0","6">>

PuzzleNakedQuads ==
  <<"0","0","0","0","7","0","4","8","0","0","3","0","0","0","0","0","0","0","0","6","4",
  "0","0","0","7","1","3","0","0","0","0","8","3","0","0","4","0","7","0","4","0","0","0",
  "0","0","0","4","0","0","0","2","0","0","0","0","5","2","1","0","9","0","7","0","0","0",
  "0","0","0","0","3","9","1","9","0","0","8","6","7","0","0","0">>

\* a board on which BUG has a proposal beside a hidden single
PuzzleBUG ==
  <<"0","1","0","9","7","3","6","0","8","7","3","0","0","2","6","1","0","5","0","6","8",
  "5","4","1","3","0","9","0","0","1","3","0","0","4","0","0","8","4","6","1","5","7","2",
  "9","3","9","2","3","0","8","0","7","0","1","0","0","0","7","0","9","8","0","0","0","0",
  "7","2","3","8","5","0","4","3","8","0","4","0","5","0","0","0">>

\* a board on which Pointing Pairs proposes eliminations of two candidates
PuzzlePointingPairs ==
  <<"8","0","0","0","0","0","3","5","9","0","9","0","8","7","0","0","0","0","2","0","0",
  "0","9","0","8","0","7","1","3","0","0","0","0","0","0","0","5","2","0","1","3","0","6",
  "4","8","0","8","0","5","0","0","0","0","0","0","0","0","0","0","0","4","0","1","0","1",
  "8","0","0","0","0","0","0","0","0","0","4","1","0","0","0","0">>

PuzzleXYZWing ==
  <<"0","1","0","5","9","4","7","6","0","3","0","0","0","2","0","0","0","0","9","0","4",
  "0","3","0","0","0","2","8","0","1","3","4","5","2","7","0","0","2","7","9","8","1","0",
  "5","0","0","0","0","0","6","0","9","1","0","5","6","0","0","7","0","4","9","1","7","8",
  "2","4","0","0","6","0","5","1","4","9","6","5","3","0","2","7">>

\* the input strings, in the order in which the bound admits them
\* a puzzle with exactly one solution that the Strategic solver gives up
\* after an XYZ-Wing elimination
UniqueXYZWing ==
  <<"0","0","0","5","0","0","0","1","4","0","0","0","0","1","9","0","6","7","0","0","0",
  "7","0","0","8","0","0","9","0","0","0","0","0","0","7","0","2","0","4","8","0","3","0",
  "0","0","0","0","0","0","0","1","6","0","0","0","0","0","1","0","5","4","9","0","0","0",
  "0","0","0","4","0","0","0","0","0","9","3","0","0","0","8","1">>

\* a puzzle with exactly one solution that the Strategic solver gives up
\* after a Simple Coloring elimination
UniqueSimpleColoring ==
  <<"0","7","0","0","0","0","0","0","5","0","0","0","6","8","5","0","0","0","0","0","0",
  "7","0","0","0","9","4","0","0","6","4","0","9","5","3","0","8","0","0","0","0","0","4",
  "0","0","0","0","0","0","3","0","0","0","0","6","2","5","0","1","0","0","4","0","0","0",
  "0","0","0","0","0","0","0","0","8","4","2","0","0","9","0","7">>

Corpus ==
  <<Puzzle1, SolvedGrid, ShortString, LetterString,
    DuplicateInColumn, Contradictory, DeadEnd, PuzzleHiddenPairs,
    PuzzleNakedTriples, PuzzleSwordfish, PuzzleRectangle, PuzzleHiddenTriples,
    PuzzleSimpleColoring, PuzzleHiddenQuads, PuzzleNakedQuads, UniqueXYZWing,
    UniqueSimpleColoring, PuzzleBUG, PuzzlePointingPairs,
    PuzzleXYZWing>>

\* number of strings of Corpus given to solve_puzzle
NumInputs ==
  19

Inputs ==
  {Corpus[k] : k \in 1..NumInputs}

SolverTypes ==
  {"Strategic", "Backtracking"}

\* ------------------------------------------------------------------------
\* Geometry
\* ------------------------------------------------------------------------

None ==
  0

Cells ==
  0..80

Digits ==
  1..9

RowOf(i) ==
  i \div 9

ColOf(i) ==
  i % 9

Idx(r, c) ==
  r * 9 + c

BoxOf(i) ==
  (RowOf(i) \div 3) * 3 + (ColOf(i) \div 3)

RowCells(r) ==
  {Idx(r, c) : c \in 0..8}

ColCells(c) ==
  {Idx(r, c) : r \in 0..8}

BoxCells(b) ==
  {Idx((b \div 3) * 3 + i, (b % 3) * 3 + j) : i \in 0..2, j \in 0..2}

\* the 27 units in the scan order 'row', 'column', 'box', each 0..8
UnitCells(u) ==
  IF u < 9 THEN RowCells(u) ELSE IF u < 18 THEN ColCells(u - 9) ELSE BoxCells(u - 18)

SetMin(S) ==
  CHOOSE x \in S : \A y \in S : x <= y

RECURSIVE SortedSeq(_)
\* the elements of a finite set of integers in ascending order
SortedSeq(S) ==
  IF S = {} THEN <<>> ELSE LET m == SetMin(S) IN <<m>> \o SortedSeq(S \ {m})

\* lexicographic order of two equal-sized sets of integers listed ascending
\* (the order in which itertools.combinations yields them)
LexLess(A, B) ==
  A # B /\ SetMin((A \ B) \cup (B \ A)) \in A

LexFirst(SS) ==
  CHOOSE A \in SS : \A Bq \in SS : A = Bq \/ LexLess(A, Bq)

KSubsets(S, k) ==
  {T \in SUBSET S : Cardinality(T) = k}

\* ------------------------------------------------------------------------
\* Validator
\* ------------------------------------------------------------------------

\* a group check that accepts every group
is_valid_group_any(cl, unit) ==
  TRUE

\* is_valid_group of Validator.validate: the filled values of the group are
\* as many as their set
is_valid_group(cl, unit) ==
  LET filled == {i \in unit : cl[i] # None}
  IN Cardinality(filled) = Cardinality({cl[i] : i \in filled})

\* a validation that looks at the rows only
validate_rows(cl) ==
  \A r \in 0..8 : is_valid_group(cl, RowCells(r))

validate(cl) ==
  /\ \A r \in 0..8 : is_valid_group(cl, RowCells(r))
  /\ \A c \in 0..8 : is_valid_group(cl, ColCells(c))
  /\ \A b \in 0..8 : is_valid_group(cl, BoxCells(b))

\* a solved test that forgets to look for empty cells
is_solved_valid_only(cl) ==
  validate(cl)

is_solved(cl) ==
  IF \E i \in Cells : cl[i] = None THEN FALSE ELSE validate(cl)

validator_check_placement(num, row_nums, col_nums, box_nums) ==
  IF num \in row_nums THEN FALSE
  ELSE IF num \in col_nums THEN FALSE
  ELSE IF num \in box_nums THEN FALSE
  ELSE TRUE

\* ------------------------------------------------------------------------
\* Board
\* ------------------------------------------------------------------------

DigitChars ==
  {"0", "1", "2", "3", "4", "5", "6", "7", "8", "9"}

\* int(char) for a decimal digit character
IntOfChar(ch) ==
  CASE ch = "0" -> 0 [] ch = "1" -> 1 [] ch = "2" -> 2 [] ch = "3" -> 3
    [] ch = "4" -> 4 [] ch = "5" -> 5 [] ch = "6" -> 6 [] ch = "7" -> 7
    [] ch = "8" -> 8 [] ch = "9" -> 9

\* the two assertions of string_to_board
string_ok(s) ==
  /\ Len(s) = 81
  /\ \A k \in 1..Len(s) : s[k] \in DigitChars

\* a conversion that fills the grid column by column
string_to_board_column_major(s) ==
  [i \in Cells |-> IF s[ColOf(i) * 9 + RowOf(i) + 1] # "0"
                   THEN IntOfChar(s[ColOf(i) * 9 + RowOf(i) + 1]) ELSE None]

\* Board.string_to_board
string_to_board(s) ==
  [i \in Cells |-> IF s[i + 1] # "0" THEN IntOfChar(s[i + 1]) ELSE None]

initialize_candidates(cl) ==
  [r \in 0..8 |-> [c \in 0..8 |-> IF cl[Idx(r, c)] = None THEN Digits ELSE {}]]

get_row_numbers(cl, r) ==
  {cl[i] : i \in {j \in RowCells(r) : cl[j] # None}}

get_col_numbers(cl, c) ==
  {cl[i] : i \in {j \in ColCells(c) : cl[j] # None}}

get_box_numbers(cl, r, c) ==
  {cl[i] : i \in {j \in BoxCells(BoxOf(Idx(r, c))) : cl[j] # None}}

board_check_placement(cl, num, r, c) ==
  validator_check_placement(num, get_row_numbers(cl, r), get_col_numbers(cl, c),
                            get_box_numbers(cl, r, c))

\* The candidate grid is a list of nine row lists.  heap maps the identity
\* of each row list object to its contents; an outer list is the sequence
\* of the identities of its rows.  update_candidates_backtracking assigns
\* self.candidates[row][col], that is, it writes into the row objects the
\* outer list refers to.

\* a recomputation that also discards from an empty cell the single
\* candidate an empty peer held before the call
update_candidates_backtracking_propagating(cl, outer, hp) ==
  [o \in DOMAIN hp |->
     IF \E r \in 0..8 : outer[r + 1] = o
     THEN LET r == CHOOSE q \in 0..8 : outer[q + 1] = o
          IN [c \in 0..8 |->
                IF cl[Idx(r, c)] = None
                THEN LET peers == (RowCells(r) \cup ColCells(c) \cup BoxCells(BoxOf(Idx(r, c))))
                                    \ {Idx(r, c)}
                         old(j) == hp[outer[RowOf(j) + 1]][ColOf(j)]
                         forced == UNION {old(j) : j \in {k \in peers :
                                      cl[k] = None /\ Cardinality(old(k)) = 1}}
                     IN (((Digits \ get_row_numbers(cl, r)) \ get_col_numbers(cl, c))
                           \ get_box_numbers(cl, r, c)) \ forced
                ELSE {}]
     ELSE hp[o]]

\* Board.update_candidates_backtracking
update_candidates_backtracking(cl, outer, hp) ==
  [o \in DOMAIN hp |->
     IF \E r \in 0..8 : outer[r + 1] = o
     THEN LET r == CHOOSE q \in 0..8 : outer[q + 1] = o
          IN [c \in 0..8 |->
                IF cl[Idx(r, c)] = None
                THEN ((Digits \ get_row_numbers(cl, r)) \ get_col_numbers(cl, c))
                        \ get_box_numbers(cl, r, c)
                ELSE {}]
     ELSE hp[o]]

\* the candidate grid an outer list denotes, flattened to cell indices
Grid(outer, hp) ==
  [i \in Cells |-> hp[outer[RowOf(i) + 1]][ColOf(i)]]

\* an update that discards the value from the peers but leaves the
\* candidates of the filled cell itself
update_candidates_on_insert_peers_only(cl, cd, i) ==
  LET v == cl[i]
      peers == (RowCells(RowOf(i)) \cup ColCells(ColOf(i)) \cup BoxCells(BoxOf(i))) \ {i}
  IN [j \in Cells |-> IF j \in peers THEN cd[j] \ {v} ELSE cd[j]]

\* update_candidates_on_insert on a flattened grid
update_candidates_on_insert(cl, cd, i) ==
  LET v == cl[i]
      peers == (RowCells(RowOf(i)) \cup ColCells(ColOf(i)) \cup BoxCells(BoxOf(i))) \ {i}
  IN [j \in Cells |-> IF j = i THEN {} ELSE IF j \in peers THEN cd[j] \ {v} ELSE cd[j]]

\* writes a flattened grid back through the outer list into the row objects
Store(outer, hp, cd) ==
  [o \in DOMAIN hp |->
     IF \E r \in 0..8 : outer[r + 1] = o
     THEN LET r == CHOOSE q \in 0..8 : outer[q + 1] = o
          IN [c \in 0..8 |-> cd[Idx(r, c)]]
     ELSE hp[o]]

\* ------------------------------------------------------------------------
\* Strategies.  Each process() reads the value grid cl and the flattened
\* candidate grid cd and returns its proposal.
\* ------------------------------------------------------------------------

\* Strategy._get_empty_cells_in_unit (and its per-strategy copies)
get_empty_cells_in_unit(cl, u) ==
  {i \in UnitCells(u) : cl[i] = None}

\* candidate_locations[candidate] of the unit-scanning strategies
candidate_locations(cd, empty_cells, v) ==
  {i \in empty_cells : v \in cd[i]}

Triple(i, v) ==
  <<RowOf(i), ColOf(i), v>>

\* ---- Single Candidate ----
\* a scan that returns at the first cell with one candidate
SingleCandidate_process_first(cl, cd) ==
  LET hit == {i \in Cells : cl[i] = None /\ Cardinality(cd[i]) = 1}
  IN IF hit = {} THEN <<>>
     ELSE <<Triple(SetMin(hit), CHOOSE v \in cd[SetMin(hit)] : TRUE)>>

SingleCandidate_process(cl, cd) ==
  LET hit == {i \in Cells : cl[i] = None /\ Cardinality(cd[i]) = 1}
      order == SortedSeq(hit)
  IN [k \in 1..Len(order) |-> Triple(order[k], CHOOSE v \in cd[order[k]] : TRUE)]

\* ---- Hidden Singles ----
\* a scan that accepts a hidden single only in a cell of two candidates
find_hidden_single_in_unit_bivalue(cd, empty_cells) ==
  LET good == {v \in Digits :
                 LET locs == candidate_locations(cd, empty_cells, v)
                 IN /\ Cardinality(locs) = 1
                    /\ Cardinality(cd[CHOOSE i \in locs : TRUE]) = 2}
  IN IF good = {} THEN <<>>
     ELSE LET v == SetMin(good)
              i == CHOOSE j \in candidate_locations(cd, empty_cells, v) : TRUE
          IN <<Triple(i, v)>>

find_hidden_single_in_unit(cd, empty_cells) ==
  LET good == {v \in Digits :
                 LET locs == candidate_locations(cd, empty_cells, v)
                 IN /\ Cardinality(locs) = 1
                    /\ Cardinality(cd[CHOOSE i \in locs : TRUE]) > 1}
  IN IF good = {} THEN <<>>
     ELSE LET v == SetMin(good)
              i == CHOOSE j \in candidate_locations(cd, empty_cells, v) : TRUE
          IN <<Triple(i, v)>>

HiddenSingles_process(cl, cd) ==
  LET res == [u \in 0..26 |->
                LET ec == get_empty_cells_in_unit(cl, u)
                IN IF ec = {} THEN <<>> ELSE find_hidden_single_in_unit(cd, ec)]
      hits == {u \in 0..26 : res[u] # <<>>}
  IN IF hits = {} THEN <<>> ELSE res[SetMin(hits)]

\* the first non-empty entry of res over the index set dom, scanned ascending
FirstHit(res, dom) ==
  LET hits == {u \in dom : res[u] # {}}
  IN IF hits = {} THEN {} ELSE res[SetMin(hits)]

\* ---- Pointing Pairs / Box-Line Intersection ----
\* the two "same row" / "same column" blocks shared by both strategies:
\* eliminations of v outside box b along the line that holds all of locs
line_eliminations(cl, cd, b, v, locs) ==
  LET rows == {RowOf(i) : i \in locs}
      cols == {ColOf(i) : i \in locs}
      inRow == IF Cardinality(rows) = 1
               THEN {i \in RowCells(CHOOSE r \in rows : TRUE) \ BoxCells(b) :
                       cl[i] = None /\ v \in cd[i]}
               ELSE {}
      inCol == IF Cardinality(cols) = 1
               THEN {i \in ColCells(CHOOSE c \in cols : TRUE) \ BoxCells(b) :
                       cl[i] = None /\ v \in cd[i]}
               ELSE {}
  IN {Triple(i, v) : i \in inRow \cup inCol}

\* a scan that takes pairs only and leaves a candidate held by three cells
find_pointing_pairs_in_box_pairs_only(cl, cd, b, empty_cells) ==
  UNION {LET locs == candidate_locations(cd, empty_cells, v)
         IN IF Cardinality(locs) # 2 THEN {}
            ELSE line_eliminations(cl, cd, b, v, locs) : v \in Digits}

find_pointing_pairs_in_box(cl, cd, b, empty_cells) ==
  UNION {LET locs == candidate_locations(cd, empty_cells, v)
         IN IF Cardinality(locs) \notin {2, 3} THEN {}
            ELSE line_eliminations(cl, cd, b, v, locs) : v \in Digits}

PointingPairs_process(cl, cd) ==
  LET res == [b \in 0..8 |->
                LET ec == get_empty_cells_in_unit(cl, 18 + b)
                IN IF Cardinality(ec) < 2 THEN {}
                   ELSE find_pointing_pairs_in_box(cl, cd, b, ec)]
  IN FirstHit(res, 0..8)

find_box_line_intersections(cl, cd, b, empty_cells) ==
  UNION {LET locs == candidate_locations(cd, empty_cells, v)
         IN IF locs = {} THEN {}
            ELSE line_eliminations(cl, cd, b, v, locs) : v \in Digits}

BoxLineIntersection_process(cl, cd) ==
  LET res == [b \in 0..8 |->
                LET ec == get_empty_cells_in_unit(cl, 18 + b)
                IN IF ec = {} THEN {}
                   ELSE find_box_line_intersections(cl, cd, b, ec)]
  IN FirstHit(res, 0..8)

\* ---- Naked Pairs ----
\* eliminations that name the values for every other empty cell of the
\* unit, whether the cell holds them or not
naked_eliminations_unfiltered(cd, empty_cells, T, vals) ==
  UNION {{Triple(i, v) : v \in vals} : i \in empty_cells \ T}

\* eliminations of the values vals from the empty cells of the unit
\* other than the cells of the subset T
naked_eliminations(cd, empty_cells, T, vals) ==
  UNION {{Triple(i, v) : v \in vals \cap cd[i]} : i \in empty_cells \ T}

\* a scan that takes any two cells of two candidates for a pair
find_naked_pairs_in_unit_unequal(cd, empty_cells) ==
  LET pair_cells == {i \in empty_cells : Cardinality(cd[i]) = 2}
      good == {T \in KSubsets(pair_cells, 2) :
                 naked_eliminations(cd, empty_cells, T, cd[CHOOSE i \in T : TRUE]) # {}}
  IN IF good = {} THEN {}
     ELSE LET T == LexFirst(good)
          IN naked_eliminations(cd, empty_cells, T, cd[CHOOSE i \in T : TRUE])

find_naked_pairs_in_unit(cd, empty_cells) ==
  LET pair_cells == {i \in empty_cells : Cardinality(cd[i]) = 2}
      good == {T \in KSubsets(pair_cells, 2) :
                 /\ \A i, j \in T : cd[i] = cd[j]
                 /\ naked_eliminations(cd, empty_cells, T, cd[CHOOSE i \in T : TRUE]) # {}}
  IN IF good = {} THEN {}
     ELSE LET T == LexFirst(good)
          IN naked_eliminations(cd, empty_cells, T, cd[CHOOSE i \in T : TRUE])

NakedPairs_process(cl, cd) ==
  LET res == [u \in 0..26 |->
                LET ec == get_empty_cells_in_unit(cl, u)
                IN IF Cardinality(ec) < 2 THEN {}
                   ELSE find_naked_pairs_in_unit(cd, ec)]
  IN FirstHit(res, 0..26)

\* ---- Naked Quads ----
find_naked_quads_in_unit(cd, empty_cells) ==
  LET quad_cells == {i \in empty_cells : Cardinality(cd[i]) >= 2 /\ Cardinality(cd[i]) <= 4}
      all_candidates(T) == UNION {cd[i] : i \in T}
      good == {T \in KSubsets(quad_cells, 4) :
                 /\ Cardinality(all_candidates(T)) = 4
                 /\ naked_eliminations(cd, empty_cells, T, all_candidates(T)) # {}}
  IN IF good = {} THEN {}
     ELSE LET T == LexFirst(good)
          IN naked_eliminations(cd, empty_cells, T, all_candidates(T))

NakedQuads_process(cl, cd) ==
  LET res == [u \in 0..26 |->
                LET ec == get_empty_cells_in_unit(cl, u)
                IN IF Cardinality(ec) < 4 THEN {}
                   ELSE find_naked_quads_in_unit(cd, ec)]
  IN FirstHit(res, 0..26)

\* ---- Naked Triples (strategies/naked_triples.py) ----
find_naked_triples_in_unit(cd, empty_cells) ==
  LET triple_cells == {i \in empty_cells : Cardinality(cd[i]) >= 2 /\ Cardinality(cd[i]) <= 3}
      all_candidates(T) == UNION {cd[i] : i \in T}
      good == {T \in KSubsets(triple_cells, 3) :
                 /\ Cardinality(all_candidates(T)) = 3
                 /\ naked_eliminations(cd, empty_cells, T, all_candidates(T)) # {}}
  IN IF good = {} THEN {}
     ELSE LET T == LexFirst(good)
          IN naked_eliminations(cd, empty_cells, T, all_candidates(T))

NakedTriples_process(cl, cd) ==
  LET res == [u \in 0..26 |->
                LET ec == get_empty_cells_in_unit(cl, u)
                IN IF Cardinality(ec) < 3 THEN {}
                   ELSE find_naked_triples_in_unit(cd, ec)]
  IN FirstHit(res, 0..26)

\* ---- Hidden Pairs / Triples / Quads ----
\* eliminations of every candidate outside vals from the cells of T
hidden_eliminations(cd, T, vals) ==
  UNION {{Triple(i, v) : v \in cd[i] \ vals} : i \in T}

find_hidden_pairs_in_unit(cd, empty_cells) ==
  LET potential == {v \in Digits : Cardinality(candidate_locations(cd, empty_cells, v)) = 2}
      locs(v) == candidate_locations(cd, empty_cells, v)
      good == {P \in KSubsets(potential, 2) :
                 /\ \A v, w \in P : locs(v) = locs(w)
                 /\ hidden_eliminations(cd, locs(CHOOSE v \in P : TRUE), P) # {}}
  IN IF good = {} THEN {}
     ELSE LET P == LexFirst(good)
          IN hidden_eliminations(cd, locs(CHOOSE v \in P : TRUE), P)

HiddenPairs_process(cl, cd) ==
  LET res == [u \in 0..26 |->
                LET ec == get_empty_cells_in_unit(cl, u)
                IN IF Cardinality(ec) < 2 THEN {}
                   ELSE find_hidden_pairs_in_unit(cd, ec)]
  IN FirstHit(res, 0..26)

find_hidden_triples_in_unit(cd, empty_cells) ==
  LET locs(v) == candidate_locations(cd, empty_cells, v)
      potential == {v \in Digits : Cardinality(locs(v)) >= 2 /\ Cardinality(locs(v)) <= 3}
      all_cells(P) == UNION {locs(v) : v \in P}
      good == {P \in KSubsets(potential, 3) :
                 /\ Cardinality(all_cells(P)) = 3
                 /\ hidden_eliminations(cd, all_cells(P), P) # {}}
  IN IF good = {} THEN {}
     ELSE LET P == LexFirst(good)
          IN hidden_eliminations(cd, all_cells(P), P)

HiddenTriples_process(cl, cd) ==
  LET res == [u \in 0..26 |->
                LET ec == get_empty_cells_in_unit(cl, u)
                IN IF Cardinality(ec) < 3 THEN {}
                   ELSE find_hidden_triples_in_unit(cd, ec)]
  IN FirstHit(res, 0..26)

find_hidden_quads_in_unit(cd, empty_cells) ==
  LET locs(v) == candidate_locations(cd, empty_cells, v)
      potential == {v \in Digits : Cardinality(locs(v)) >= 2 /\ Cardinality(locs(v)) <= 4}
      all_cells(P) == UNION {locs(v) : v \in P}
      good == {P \in KSubsets(potential, 4) :
                 /\ Cardinality(all_cells(P)) = 4
                 /\ hidden_eliminations(cd, all_cells(P), P) # {}}
  IN IF good = {} THEN {}
     ELSE LET P == LexFirst(good)
          IN hidden_eliminations(cd, all_cells(P), P)

HiddenQuads_process(cl, cd) ==
  LET res == [u \in 0..26 |->
                LET ec == get_empty_cells_in_unit(cl, u)
                IN IF Cardinality(ec) < 4 THEN {}
                   ELSE find_hidden_quads_in_unit(cd, ec)]
  IN FirstHit(res, 0..26)

\* ---- X-Wing / Swordfish ----
\* The row search and the column search are the same code with rows and
\* columns exchanged: tr = FALSE reads (line, pos) as (row, col), tr = TRUE
\* as (col, row).
LineCell(tr, line, pos) ==
  IF tr THEN Idx(pos, line) ELSE Idx(line, pos)

\* positions in a line whose empty cell holds candidate v
line_holders(cl, cd, tr, line, v) ==
  {p \in 0..8 : cl[LineCell(tr, line, p)] = None /\ v \in cd[LineCell(tr, line, p)]}

\* eliminations of v at the positions ps in every line, those of L included
fish_eliminations_all_lines(cl, cd, tr, L, ps, v) ==
  LET hit == {LineCell(tr, line, p) : line \in 0..8, p \in ps}
  IN {Triple(i, v) : i \in {j \in hit : cl[j] = None /\ v \in cd[j]}}

\* eliminations of v at the positions ps in every line outside L
fish_eliminations(cl, cd, tr, L, ps, v) ==
  LET hit == {LineCell(tr, line, p) : line \in (0..8) \ L, p \in ps}
  IN {Triple(i, v) : i \in {j \in hit : cl[j] = None /\ v \in cd[j]}}

find_x_wing(cl, cd, tr) ==
  LET res == [v \in Digits |->
        LET twice == {l \in 0..8 : Cardinality(line_holders(cl, cd, tr, l, v)) = 2}
            cols(L) == line_holders(cl, cd, tr, CHOOSE l \in L : TRUE, v)
            good == {L \in KSubsets(twice, 2) :
                       /\ \A l1, l2 \in L : line_holders(cl, cd, tr, l1, v)
                                             = line_holders(cl, cd, tr, l2, v)
                       /\ fish_eliminations(cl, cd, tr, L, cols(L), v) # {}}
        IN IF good = {} THEN {}
           ELSE LET L == LexFirst(good) IN fish_eliminations(cl, cd, tr, L, cols(L), v)]
  IN FirstHit(res, Digits)

find_x_wing_in_rows(cl, cd) ==
  find_x_wing(cl, cd, FALSE)

find_x_wing_in_columns(cl, cd) ==
  find_x_wing(cl, cd, TRUE)

XWing_process(cl, cd) ==
  LET row_eliminations == find_x_wing_in_rows(cl, cd)
  IN IF row_eliminations # {} THEN row_eliminations ELSE find_x_wing_in_columns(cl, cd)

find_swordfish(cl, cd, tr) ==
  LET res == [v \in Digits |->
        LET with == {l \in 0..8 : Cardinality(line_holders(cl, cd, tr, l, v)) \in {2, 3}}
            all_cols(L) == UNION {line_holders(cl, cd, tr, l, v) : l \in L}
            good == {L \in KSubsets(with, 3) :
                       /\ Cardinality(all_cols(L)) = 3
                       /\ fish_eliminations(cl, cd, tr, L, all_cols(L), v) # {}}
        IN IF good = {} THEN {}
           ELSE LET L == LexFirst(good) IN fish_eliminations(cl, cd, tr, L, all_cols(L), v)]
  IN FirstHit(res, Digits)

find_swordfish_in_rows(cl, cd) ==
  find_swordfish(cl, cd, FALSE)

find_swordfish_in_columns(cl, cd) ==
  find_swordfish(cl, cd, TRUE)

Swordfish_process(cl, cd) ==
  LET row_eliminations == find_swordfish_in_rows(cl, cd)
  IN IF row_eliminations # {} THEN row_eliminations ELSE find_swordfish_in_columns(cl, cd)

\* ---- Y-Wing ----
\* _cells_can_see_each_other (Y-Wing, XYZ-Wing) and _cells_share_unit
\* (Simple Coloring): same row, same column or same box
cells_can_see_each_other(a, b) ==
  \/ RowOf(a) = RowOf(b)
  \/ ColOf(a) = ColOf(b)
  \/ (RowOf(a) \div 3 = RowOf(b) \div 3 /\ ColOf(a) \div 3 = ColOf(b) \div 3)

\* the unordered pairs of distinct elements of S (combinations(S, 2))
Pairs(S) ==
  {P \in {{a, b} : a \in S, b \in S} : Cardinality(P) = 2}

find_bi_value_cells(cl, cd) ==
  {i \in Cells : cl[i] = None /\ Cardinality(cd[i]) = 2}

find_wing_cells(cd, pivot, bi_value_cells) ==
  {w \in bi_value_cells \ {pivot} :
     /\ Cardinality(cd[w] \cap cd[pivot]) = 1
     /\ cells_can_see_each_other(pivot, w)}

is_valid_ywing(cd, pivot, W) ==
  LET w1 == SetMin(W)
      w2 == SetMin(W \ {w1})
      common_candidate == cd[w1] \cap cd[w2]
  IN /\ (cd[pivot] \cap cd[w1]) # (cd[pivot] \cap cd[w2])
     /\ Cardinality(common_candidate) = 1
     /\ (CHOOSE z \in common_candidate : TRUE) \notin cd[pivot]

ywing_find_eliminations(cl, cd, pivot, W) ==
  LET w1 == SetMin(W)
      w2 == SetMin(W \ {w1})
      common_candidate == cd[w1] \cap cd[w2]
  IN IF common_candidate = {} THEN {}
     ELSE LET z == SetMin(common_candidate)
          IN {Triple(i, z) : i \in {j \in Cells \ ({pivot} \cup W) :
                /\ \A w \in W : cells_can_see_each_other(j, w)
                /\ cl[j] = None
                /\ z \in cd[j]}}

YWing_process(cl, cd) ==
  LET bi == find_bi_value_cells(cl, cd)
      res == [p \in Cells |->
                IF p \notin bi THEN {}
                ELSE LET good == {W \in Pairs(find_wing_cells(cd, p, bi)) :
                                    /\ is_valid_ywing(cd, p, W)
                                    /\ ywing_find_eliminations(cl, cd, p, W) # {}}
                     IN IF good = {} THEN {}
                        ELSE ywing_find_eliminations(cl, cd, p, LexFirst(good))]
  IN FirstHit(res, Cells)

\* ---- XYZ-Wing ----
xyz_find_wings(cl, cd, pivot) ==
  {w \in Cells \ {pivot} :
     /\ cl[w] = None
     /\ Cardinality(cd[w]) = 2
     /\ cd[w] \subseteq cd[pivot]
     /\ cells_can_see_each_other(pivot, w)}

is_valid_xyz(pivot_cands, wing1, wing2) ==
  IF (wing1 \cup wing2 \cup pivot_cands) # pivot_cands THEN FALSE
  ELSE IF Cardinality(wing1 \cap wing2) # 1 THEN FALSE
  ELSE TRUE

xyz_find_eliminations(cl, cd, W, candidate) ==
  {Triple(i, candidate) : i \in {j \in Cells \ W :
     /\ \A w \in W : cells_can_see_each_other(j, w)
     /\ cl[j] = None
     /\ candidate \in cd[j]}}

XYZWing_process(cl, cd) ==
  LET tri_cells == {i \in Cells : cl[i] = None /\ Cardinality(cd[i]) = 3}
      elim(W) == xyz_find_eliminations(cl, cd, W,
                   CHOOSE z \in cd[SetMin(W)] : \A w \in W : z \in cd[w])
      res == [p \in Cells |->
                IF p \notin tri_cells THEN {}
                ELSE LET good == {W \in Pairs(xyz_find_wings(cl, cd, p)) :
                                    /\ is_valid_xyz(cd[p], cd[SetMin(W)],
                                                    cd[SetMin(W \ {SetMin(W)})])
                                    /\ elim(W) # {}}
                     IN IF good = {} THEN {} ELSE elim(LexFirst(good))]
  IN FirstHit(res, Cells)

\* ---- Rectangle Elimination ----
\* rectangles are numbered so that ascending keys follow the nested
\* combinations(range(9), 2) loops over rows and then over columns
RectKey(r1, r2, c1, c2) ==
  ((r1 * 9 + r2) * 9 + c1) * 9 + c2

rectangle_eliminations(cl, cd, r1, r2, c1, c2) ==
  LET rect == {Idx(r1, c1), Idx(r1, c2), Idx(r2, c1), Idx(r2, c2)}
      pair_cells == {i \in rect : Cardinality(cd[i]) = 2}
  IN IF \E i \in rect : cl[i] # None THEN {}
     ELSE IF Cardinality(pair_cells) # 3 THEN {}
     ELSE IF \E i, j \in pair_cells : cd[i] # cd[j] THEN {}
     ELSE LET common == cd[CHOOSE i \in pair_cells : TRUE]
              target == CHOOSE i \in rect : cd[i] # common
          IN IF common \subseteq cd[target] /\ Cardinality(cd[target]) > 2
             THEN {Triple(target, val) : val \in common}
             ELSE {}

RectangleElimination_process(cl, cd) ==
  LET good == {k \in 0..RectKey(8, 8, 8, 8) :
                 LET r1 == k \div 729
                     r2 == (k \div 81) % 9
                     c1 == (k \div 9) % 9
                     c2 == k % 9
                 IN /\ r1 < r2
                    /\ c1 < c2
                    /\ rectangle_eliminations(cl, cd, r1, r2, c1, c2) # {}}
  IN IF good = {} THEN {}
     ELSE LET k == SetMin(good)
          IN rectangle_eliminations(cl, cd, k \div 729, (k \div 81) % 9, (k \div 9) % 9, k % 9)

\* ---- Simple Coloring ----
\* The units in the order _find_strong_links visits them: row i and then
\* column i for i = 0..8, then the nine boxes.
LinkUnit(t) ==
  IF t < 18 THEN (IF t % 2 = 0 THEN RowCells(t \div 2) ELSE ColCells(t \div 2))
  ELSE BoxCells(t - 18)

unit_holders(cl, cd, unit, v) ==
  {i \in unit : cl[i] = None /\ v \in cd[i]}

\* the strong links of candidate v: an entry <<t, {a, b}>> for each visit
\* t whose unit has exactly the two holders a and b
find_strong_links(cl, cd, v) ==
  LET visits == {<<t, unit_holders(cl, cd, LinkUnit(t), v)>> : t \in 0..26}
  IN {e \in visits : Cardinality(e[2]) = 2}

\* links[a]
link_neighbors(links, a) ==
  UNION {e[2] \ {a} : e \in {x \in links : a \in x[2]}}

\* position of cell a among the keys of the dict links: keys are inserted
\* visit by visit, the holder that comes first in the unit before the other
link_rank(links, a) ==
  SetMin({2 * e[1] + (IF a = SetMin(e[2]) THEN 0 ELSE 1) : e \in {x \in links : a \in x[2]}})

RECURSIVE color_from(_, _, _, _, _)
\* the breadth-first colouring of _color_components: the queue is first in
\* first out, so a cell is coloured by the entry queued from the level
\* before it, that is, by the parity of its distance from the start cell
color_from(links, frontier, seen, color, comp) ==
  IF frontier = {} THEN comp
  ELSE LET nxt == UNION {link_neighbors(links, x) : x \in frontier} \ seen
           comp2 == IF color THEN [comp EXCEPT !.t = comp.t \cup frontier]
                    ELSE [comp EXCEPT !.f = comp.f \cup frontier]
       IN color_from(links, nxt, seen \cup nxt, ~color, comp2)

\* the components in the list _color_components returns: each starts at
\* the first key of links that no earlier component visited; rank is the
\* position of that key, comp.t / comp.f the cells coloured True / False
color_components(links) ==
  LET linked == UNION {e[2] : e \in links}
      ranks == {<<a, link_rank(links, a)>> : a \in linked}
      colored == {[rank |-> p[2],
                   comp |-> color_from(links, {p[1]}, {p[1]}, TRUE, [t |-> {}, f |-> {}])] :
                    p \in ranks}
  IN {c \in colored : \A p \in ranks : p[1] \in c.comp.t \cup c.comp.f => c.rank <= p[2]}

check_contradiction(cd, v, comp) ==
  LET clash(S) == \E a \in S, b \in S : a # b /\ cells_can_see_each_other(a, b)
      elim(S) == {Triple(i, v) : i \in {j \in S : v \in cd[j]}}
  IN IF clash(comp.t) THEN elim(comp.f)
     ELSE IF clash(comp.f) THEN elim(comp.t)
     ELSE {}

SimpleColoring_process(cl, cd) ==
  LET res == [v \in Digits |->
        LET components == color_components(find_strong_links(cl, cd, v))
            hits == {c \in components : check_contradiction(cd, v, c.comp) # {}}
        IN IF hits = {} THEN {}
           ELSE check_contradiction(cd, v,
                  (CHOOSE c \in hits : \A d \in hits : c.rank <= d.rank).comp)]
  IN FirstHit(res, Digits)

\* ---- BUG+1 ----
candidate_unique_in_unit(cd, i, value) ==
  LET count(unit) == Cardinality({j \in unit : value \in cd[j]})
  IN IF count(RowCells(RowOf(i))) = 1 THEN TRUE
     ELSE IF count(ColCells(ColOf(i))) = 1 THEN TRUE
     ELSE count(BoxCells(BoxOf(i))) = 1

\* "for value in candidates" visits a candidate set in ascending order: the
\* Board builds every candidate set from set(range(1, 10)) and afterwards
\* only removes elements, which keeps CPython's iteration order ascending
BUG_process(cl, cd) ==
  LET unsolved == {i \in Cells : cl[i] = None}
      non_bi == {i \in unsolved : Cardinality(cd[i]) # 2}
  IN IF Cardinality(non_bi) # 1 THEN <<>>
     ELSE LET i == CHOOSE j \in non_bi : TRUE
              good == {v \in cd[i] : candidate_unique_in_unit(cd, i, v)}
          IN IF good = {} THEN <<>> ELSE <<Triple(i, SetMin(good))>>

\* ------------------------------------------------------------------------
\* StrategicSolver
\* ------------------------------------------------------------------------

\* a pipeline that tries Hidden Singles before Single Candidate
strategies_swapped ==
  <<"Hidden Singles Strategy",
    "Single Candidate Strategy",
    "Pointing Pairs Strategy",
    "Box/Line Intersection Strategy",
    "Naked Pairs Strategy",
    "Hidden Pairs Strategy",
    "Naked Triples Strategy",
    "Hidden Triples Strategy",
    "Naked Quads Strategy",
    "Hidden Quads Strategy",
    "X-Wing Strategy",
    "Swordfish Strategy",
    "Y-Wing Strategy",
    "Simple Coloring Strategy",
    "XYZ-Wing Strategy",
    "Rectangle Elimination Strategy",
    "BUG Strategy">>

\* StrategicSolver.__init__: self.strategies, by Strategy.name
strategies ==
  <<"Single Candidate Strategy",
    "Hidden Singles Strategy",
    "Pointing Pairs Strategy",
    "Box/Line Intersection Strategy",
    "Naked Pairs Strategy",
    "Hidden Pairs Strategy",
    "Naked Triples Strategy",
    "Hidden Triples Strategy",
    "Naked Quads Strategy",
    "Hidden Quads Strategy",
    "X-Wing Strategy",
    "Swordfish Strategy",
    "Y-Wing Strategy",
    "Simple Coloring Strategy",
    "XYZ-Wing Strategy",
    "Rectangle Elimination Strategy",
    "BUG Strategy">>

ValueFinders ==
  {"Single Candidate Strategy", "Hidden Singles Strategy", "BUG Strategy"}

\* Strategy.type
StrategyType(name) ==
  IF name \in ValueFinders THEN "Value Finder" ELSE "Candidate Eliminator"

\* strategy.process() of the strategy with the given name
process(name, cl, cd) ==
  CASE name = "Single Candidate Strategy" -> SingleCandidate_process(cl, cd)
    [] name = "Hidden Singles Strategy" -> HiddenSingles_process(cl, cd)
    [] name = "Pointing Pairs Strategy" -> PointingPairs_process(cl, cd)
    [] name = "Box/Line Intersection Strategy" -> BoxLineIntersection_process(cl, cd)
    [] name = "Naked Pairs Strategy" -> NakedPairs_process(cl, cd)
    [] name = "Hidden Pairs Strategy" -> HiddenPairs_process(cl, cd)
    [] name = "Naked Triples Strategy" -> NakedTriples_process(cl, cd)
    [] name = "Hidden Triples Strategy" -> HiddenTriples_process(cl, cd)
    [] name = "Naked Quads Strategy" -> NakedQuads_process(cl, cd)
    [] name = "Hidden Quads Strategy" -> HiddenQuads_process(cl, cd)
    [] name = "X-Wing Strategy" -> XWing_process(cl, cd)
    [] name = "Swordfish Strategy" -> Swordfish_process(cl, cd)
    [] name = "Y-Wing Strategy" -> YWing_process(cl, cd)
    [] name = "Simple Coloring Strategy" -> SimpleColoring_process(cl, cd)
    [] name = "XYZ-Wing Strategy" -> XYZWing_process(cl, cd)
    [] name = "Rectangle Elimination Strategy" -> RectangleElimination_process(cl, cd)
    [] name = "BUG Strategy" -> BUG_process(cl, cd)

\* truth value of a process() result ("if result:")
Truthy(name, res) ==
  IF StrategyType(name) = "Value Finder" THEN res # <<>> ELSE res # {}

RECURSIVE find_from(_, _, _)
\* the loop of find_strategy from position k of self.strategies on:
\* the first strategy whose process() result is truthy, with that result
find_from(k, cl, cd) ==
  IF k > Len(strategies) THEN [found |-> FALSE, name |-> "None", result |-> <<>>]
  ELSE LET res == process(strategies[k], cl, cd)
       IN IF Truthy(strategies[k], res)
          THEN [found |-> TRUE, name |-> strategies[k], result |-> res]
          ELSE find_from(k + 1, cl, cd)

find_strategy(cl, cd) ==
  find_from(1, cl, cd)

\* an insertion loop that writes the values and leaves the candidates
insert_values_cells_only(vals, cl, cd) ==
  <<[i \in Cells |->
       IF \E k \in 1..Len(vals) : Idx(vals[k][1], vals[k][2]) = i
       THEN vals[CHOOSE k \in 1..Len(vals) :
                   /\ Idx(vals[k][1], vals[k][2]) = i
                   /\ \A m \in (k + 1)..Len(vals) : Idx(vals[m][1], vals[m][2]) # i][3]
       ELSE cl[i]], cd>>

RECURSIVE insert_values(_, _, _)
\* the insertion loop of apply_strategy: returns <<cells, candidates>>
insert_values(vals, cl, cd) ==
  IF vals = <<>> THEN <<cl, cd>>
  ELSE LET t == Head(vals)
           i == Idx(t[1], t[2])
           cl2 == [cl EXCEPT ![i] = t[3]]
       IN insert_values(Tail(vals), cl2, update_candidates_on_insert(cl2, cd, i))

\* an elimination loop that stops after the first item of the proposal
eliminate_candidates_first(elims, cd) ==
  IF elims = {} THEN cd
  ELSE LET e == CHOOSE x \in elims : \A y \in elims :
                  x[1] * 81 + x[2] * 9 + x[3] <= y[1] * 81 + y[2] * 9 + y[3]
       IN [cd EXCEPT ![Idx(e[1], e[2])] = @ \ {e[3]}]

\* the elimination loop of apply_strategy
eliminate_candidates(elims, cd) ==
  [i \in Cells |-> cd[i] \ {t[3] : t \in {e \in elims : Idx(e[1], e[2]) = i}}]

\* ------------------------------------------------------------------------
\* State
\* ------------------------------------------------------------------------

VARIABLES
  puzzle_str,              \* argument of solve_puzzle
  solver_type,             \* argument of solve_puzzle
  pc,                      \* position in solve_puzzle
  cells,                   \* Board.cells
  candidates,              \* Board.candidates: the outer list (row identities)
  heap,                    \* contents of the row list objects
  solver,                  \* class of the solver created by the factory
  current_state,           \* SudokuStateMachine.current_state
  no_strategy_count,       \* SudokuStateMachine.no_strategy_count
  current_strategy,        \* StrategicSolver.current_strategy (its name)
  values_to_insert,        \* StrategicSolver.values_to_insert
  candidates_to_eliminate, \* StrategicSolver.candidates_to_eliminate
  strategies_used,         \* SudokuLogger.strategies_used
  inserted_values,         \* SudokuLogger.inserted_values
  stack,                   \* activation records of _solve_board
  cache,                   \* BacktrackingSolver.cache
  retval,                  \* value returned by the last finished call
  solved,                  \* result["solved"]
  prev                     \* what the caller kept of the previous call

vars ==
  <<puzzle_str, solver_type, pc, cells, candidates, heap, solver, current_state,
    no_strategy_count, current_strategy, values_to_insert, candidates_to_eliminate,
    strategies_used, inserted_values, stack, cache, retval, solved, prev>>

boardVars ==
  <<cells, candidates, heap>>

smVars ==
  <<current_state, no_strategy_count>>

solverVars ==
  <<current_strategy, values_to_insert, candidates_to_eliminate>>

logVars ==
  <<strategies_used, inserted_values>>

btVars ==
  <<stack, cache, retval>>

NoBoard ==
  [i \in Cells |-> None]

Init ==
  /\ puzzle_str \in Inputs
  /\ solver_type \in SolverTypes
  /\ pc = "start"
  /\ cells = NoBoard
  /\ candidates = <<>>
  /\ heap = <<>>
  /\ solver = "none"
  /\ current_state = "none"
  /\ no_strategy_count = 0
  /\ current_strategy = "None"
  /\ values_to_insert = <<>>
  /\ candidates_to_eliminate = {}
  /\ strategies_used = <<>>
  /\ inserted_values = <<>>
  /\ stack = <<>>
  /\ cache = <<>>
  /\ retval = FALSE
  /\ solved = FALSE
  /\ prev = <<>>

\* the candidate grid of the board, flattened
Cand ==
  Grid(candidates, heap)

\* ------------------------------------------------------------------------
\* solve_puzzle: Board construction and solver creation
\* ------------------------------------------------------------------------

\* Board(puzzle_str): Board.__init__.  A failed assertion propagates out of
\* solve_puzzle (the except clause re-raises).
BoardInit ==
  /\ pc = "start"
  /\ IF ~string_ok(puzzle_str)
     THEN /\ pc' = "raised"
          /\ UNCHANGED boardVars
     ELSE LET cl == string_to_board(puzzle_str)
              outer == <<0, 1, 2, 3, 4, 5, 6, 7, 8>>
              hp == update_candidates_backtracking(cl, outer, initialize_candidates(cl))
          IN /\ cells' = cl
             /\ candidates' = outer
             /\ heap' = hp
             /\ pc' = IF validate(cl) THEN "board" ELSE "raised"
  /\ UNCHANGED <<prev, puzzle_str, solver_type, solver, smVars, solverVars, logVars, btVars, solved>>

\* SolverFactory.create_solver
create_solver(solverType) ==
  CASE solverType = "Backtracking" -> "BacktrackingSolver"
    [] solverType = "Strategic" -> "StrategicSolver"
    [] OTHER -> "BacktrackingSolver"

\* the logger a call of solve_puzzle without logger argument merely shares
\* with the call before it
SudokuLogger_shared ==
  [strategies_used |-> strategies_used, inserted_values |-> inserted_values]

\* SudokuLogger.__init__
SudokuLogger_init ==
  [strategies_used |-> <<>>, inserted_values |-> <<>>]

\* SolverUtil.create_solver (the constructor of the solver class), then
\* SudokuLogger() and Sudoku(board, solver, logger), which constructs the
\* SudokuStateMachine
CreateSolver ==
  /\ pc = "board"
  /\ solver' = create_solver(solver_type)
  /\ current_strategy' = "None"
  /\ values_to_insert' = <<>>
  /\ candidates_to_eliminate' = {}
  /\ stack' = <<>>
  /\ cache' = <<>>
  /\ strategies_used' = SudokuLogger_init.strategies_used
  /\ inserted_values' = SudokuLogger_init.inserted_values
  /\ current_state' = "finding_best_strategy"
  /\ no_strategy_count' = 0
  /\ pc' = "solve"
  /\ UNCHANGED <<prev, puzzle_str, solver_type, boardVars, retval, solved>>

\* ------------------------------------------------------------------------
\* SudokuStateMachine
\* ------------------------------------------------------------------------

InStrategicLoop ==
  /\ pc = "solve"
  /\ solver = "StrategicSolver"

\* a machine that always grants the grace period
always_retry(valid, count) ==
  [state |-> "checking_if_solved", count |-> count]

\* the else branch of finding_best_strategy: no strategy was found
no_strategy_found(valid, count) ==
  IF ~valid \/ count >= 1
  THEN [state |-> "unsolvable", count |-> count]
  ELSE [state |-> "checking_if_solved", count |-> count + 1]

\* SudokuStateMachine.finding_best_strategy, with StrategicSolver.find_strategy
finding_best_strategy ==
  /\ InStrategicLoop
  /\ current_state = "finding_best_strategy"
  /\ LET f == find_strategy(cells, Cand)
     IN IF f.found
        THEN /\ current_strategy' = f.name
             /\ IF StrategyType(f.name) = "Value Finder"
                THEN values_to_insert' = f.result /\ UNCHANGED candidates_to_eliminate
                ELSE candidates_to_eliminate' = f.result /\ UNCHANGED values_to_insert
             /\ strategies_used' = Append(strategies_used, f.name)
             /\ current_state' = "applying_strategy"
             /\ no_strategy_count' = 0
        ELSE /\ current_strategy' = "None"
             /\ UNCHANGED <<values_to_insert, candidates_to_eliminate, strategies_used>>
             /\ LET t == no_strategy_found(validate(cells), no_strategy_count)
                IN /\ current_state' = t.state
                   /\ no_strategy_count' = t.count
  /\ UNCHANGED <<prev, puzzle_str, solver_type, pc, boardVars, solver, inserted_values, btVars, solved>>

\* a loop that logs the first update of an insertion only
log_inserted_values_first(log, updates) ==
  Append(log, updates[1])

\* the loop of SudokuStateMachine.applying_strategy over the updates of an
\* insertion: logger.log_inserted_value appends each (row, col, value)
log_inserted_values(log, updates) ==
  log \o updates

\* SudokuStateMachine.applying_strategy, with StrategicSolver.apply_strategy
applying_strategy ==
  /\ InStrategicLoop
  /\ current_state = "applying_strategy"
  /\ IF current_strategy # "None" /\ candidates_to_eliminate # {}
     THEN /\ heap' = Store(candidates, heap, eliminate_candidates(candidates_to_eliminate, Cand))
          /\ candidates_to_eliminate' = {}
          /\ UNCHANGED <<cells, values_to_insert, inserted_values>>
     ELSE IF current_strategy # "None" /\ values_to_insert # <<>>
     THEN /\ LET r == insert_values(values_to_insert, cells, Cand)
             IN /\ cells' = r[1]
                /\ heap' = Store(candidates, heap, r[2])
          /\ inserted_values' = log_inserted_values(inserted_values, values_to_insert)
          /\ values_to_insert' = <<>>
          /\ UNCHANGED candidates_to_eliminate
     ELSE UNCHANGED <<cells, heap, values_to_insert, candidates_to_eliminate, inserted_values>>
  /\ current_state' = "checking_if_solved"
  /\ UNCHANGED <<prev, puzzle_str, solver_type, pc, candidates, solver, no_strategy_count,
                 current_strategy, strategies_used, btVars, solved>>

\* SudokuStateMachine.checking_if_solved
checking_if_solved ==
  /\ InStrategicLoop
  /\ current_state = "checking_if_solved"
  /\ current_state' = IF is_solved(cells) THEN "solved" ELSE "finding_best_strategy"
  /\ UNCHANGED <<prev, puzzle_str, solver_type, pc, boardVars, solver, no_strategy_count,
                 solverVars, logVars, btVars, solved>>

\* the while loop of SudokuStateMachine.solve ends; solve_puzzle returns
StrategicReturn ==
  /\ InStrategicLoop
  /\ current_state \in {"solved", "unsolvable"}
  /\ solved' = (current_state = "solved")
  /\ pc' = "done"
  /\ UNCHANGED <<prev, puzzle_str, solver_type, boardVars, solver, smVars, solverVars,
                 logVars, btVars>>

\* ------------------------------------------------------------------------
\* BacktrackingSolver
\* ------------------------------------------------------------------------

NoCell ==
  0 - 1

\* a key made of the first row only
board_to_tuple_first_row(cl) ==
  [i \in 0..8 |-> cl[i]]

\* _board_to_tuple: the whole value grid
board_to_tuple(cl) ==
  cl

\* a search for the cell with the fewest candidates, but at least one
find_most_constrained_cell_nonzero(cl, cd) ==
  LET empty == {i \in Cells : cl[i] = None /\ cd[i] # {}}
  IN IF empty = {} THEN NoCell
     ELSE SetMin({i \in empty : \A j \in empty : Cardinality(cd[i]) <= Cardinality(cd[j])})

\* _find_most_constrained_cell: the first cell in row-major order among the
\* empty cells with the fewest candidates, NoCell (None) on a full board
find_most_constrained_cell(cl, cd) ==
  LET empty == {i \in Cells : cl[i] = None}
  IN IF empty = {} THEN NoCell
     ELSE SetMin({i \in empty : \A j \in empty : Cardinality(cd[i]) <= Cardinality(cd[j])})

\* list.copy() of the outer candidate list: a new outer list that refers
\* to the same row objects
list_copy(outer) ==
  outer

Top ==
  stack[Len(stack)]

\* a loop that offers the same number again
iter_same(nums) ==
  nums

\* the for loop of _solve_board advances to the next candidate
iter_next(nums) ==
  Tail(nums)

Pop ==
  SubSeq(stack, 1, Len(stack) - 1)

\* BacktrackingSolver.solve up to the first call of _solve_board
bt_solve ==
  /\ pc = "solve"
  /\ solver = "BacktrackingSolver"
  /\ heap' = update_candidates_backtracking(cells, candidates, heap)
  /\ pc' = "bt_call"
  /\ UNCHANGED <<prev, puzzle_str, solver_type, cells, candidates, solver, smVars, solverVars,
                 logVars, btVars, solved>>

\* _solve_board from its entry to the start of the for loop
solve_board_enter ==
  /\ pc = "bt_call"
  /\ LET board_key == board_to_tuple(cells)
         cell == find_most_constrained_cell(cells, Cand)
     IN IF board_key \in DOMAIN cache
        THEN /\ retval' = cache[board_key]
             /\ pc' = "bt_return"
             /\ UNCHANGED <<stack, cache>>
        ELSE IF cell = NoCell
        THEN /\ cache' = cache @@ (board_key :> TRUE)
             /\ retval' = TRUE
             /\ pc' = "bt_return"
             /\ UNCHANGED stack
        ELSE /\ stack' = Append(stack, [board_key |-> board_key,
                                        cell |-> cell,
                                        nums |-> SortedSeq(Cand[cell]),
                                        saved_candidates |-> <<>>,
                                        copied |-> <<>>])
             /\ pc' = "bt_loop"
             /\ UNCHANGED <<cache, retval>>
  /\ UNCHANGED <<prev, puzzle_str, solver_type, boardVars, solver, smVars, solverVars, logVars,
                 solved>>

\* one iteration of the for loop up to the recursive call, or the end of
\* the loop (cache[board_key] = False; return False).  The field copied of
\* the frame keeps the candidate grid saved_candidates denoted at the
\* moment of the copy (line 56); no step reads it.
solve_board_try ==
  /\ pc = "bt_loop"
  /\ IF Top.nums = <<>>
     THEN /\ cache' = cache @@ (Top.board_key :> FALSE)
          /\ retval' = FALSE
          /\ stack' = Pop
          /\ pc' = "bt_return"
          /\ UNCHANGED boardVars
     ELSE LET num == Head(Top.nums)
              i == Top.cell
          IN IF board_check_placement(cells, num, RowOf(i), ColOf(i))
             THEN /\ cells' = [cells EXCEPT ![i] = num]
                  /\ stack' = [stack EXCEPT ![Len(stack)] =
                                 [@ EXCEPT !.nums = iter_next(@),
                                           !.saved_candidates = list_copy(candidates),
                                           !.copied = Grid(candidates, heap)]]
                  /\ heap' = update_candidates_backtracking(cells', candidates, heap)
                  /\ pc' = "bt_call"
                  /\ UNCHANGED <<candidates, cache, retval>>
             ELSE /\ stack' = [stack EXCEPT ![Len(stack)] = [@ EXCEPT !.nums = iter_next(@)]]
                  /\ pc' = "bt_loop"
                  /\ UNCHANGED <<boardVars, cache, retval>>
  /\ UNCHANGED <<prev, puzzle_str, solver_type, solver, smVars, solverVars, logVars, solved>>

\* the recursive call returned to the frame on top of the stack
solve_board_resume ==
  /\ pc = "bt_return"
  /\ stack # <<>>
  /\ IF retval
     THEN /\ cache' = cache @@ (Top.board_key :> TRUE)
          /\ stack' = Pop
          /\ pc' = "bt_return"
          /\ UNCHANGED <<boardVars, retval>>
     ELSE /\ cells' = [cells EXCEPT ![Top.cell] = None]
          /\ candidates' = Top.saved_candidates
          /\ pc' = "bt_loop"
          /\ UNCHANGED <<heap, stack, cache, retval>>
  /\ UNCHANGED <<prev, puzzle_str, solver_type, solver, smVars, solverVars, logVars, solved>>

\* the outermost _solve_board returned: solve() and solve_puzzle return
bt_return ==
  /\ pc = "bt_return"
  /\ stack = <<>>
  /\ solved' = retval
  /\ pc' = "done"
  /\ UNCHANGED <<prev, puzzle_str, solver_type, boardVars, solver, smVars, solverVars, logVars,
                 btVars>>

\* the caller keeps the returned result (or the exception) and calls
\* solve_puzzle once more with the same puzzle string
solve_puzzle_again ==
  /\ pc \in {"done", "raised"}
  /\ prev' = <<[solver_type |-> solver_type,
                raised |-> pc = "raised",
                solved |-> solved,
                grid |-> cells,
                strategies_used |-> strategies_used,
                inserted_values |-> inserted_values]>>
  /\ solver_type' \in SolverTypes
  /\ solved' = FALSE
  /\ pc' = "start"
  /\ UNCHANGED <<puzzle_str, boardVars, solver, smVars, solverVars, logVars, btVars>>

Next ==
  \/ BoardInit
  \/ CreateSolver
  \/ finding_best_strategy
  \/ applying_strategy
  \/ checking_if_solved
  \/ StrategicReturn
  \/ bt_solve
  \/ solve_board_enter
  \/ solve_board_try
  \/ solve_board_resume
  \/ bt_return

Spec ==
  Init /\ [][Next]_vars

SessionNext ==
  \/ Next
  \/ solve_puzzle_again

\* a caller that calls solve_puzzle repeatedly
SessionSpec ==
  Init /\ [][SessionNext]_vars

\* ------------------------------------------------------------------------
\* The Board alone: a Board that holds a value grid of a bounded family,
\* and a caller of its methods is_valid() and
\* update_candidates_backtracking()
\* ------------------------------------------------------------------------

\* how many cells of a base grid are overwritten
NumEditCells == 2

EditOrder ==
  <<Idx(0, 0), Idx(4, 0), Idx(0, 4), Idx(1, 1)>>

EditCells ==
  {EditOrder[k] : k \in 1..NumEditCells}

\* the strings whose grids are the base grids
GridBases ==
  {Puzzle1, SolvedGrid, DuplicateInColumn}

\* self.cells[row][col] = value for every cell of e
Overwrite(g, e) ==
  [i \in Cells |-> IF i \in DOMAIN e THEN e[i] ELSE g[i]]

\* a Board whose value grid is a base grid with the cells EditCells
\* overwritten by any values; its candidate grid is the one of line 13 of
\* Board.__init__
GridInit ==
  /\ puzzle_str \in GridBases
  /\ solver_type = "Strategic"
  /\ pc = "grid"
  /\ \E e \in [EditCells -> {None} \cup Digits] :
       cells = Overwrite(string_to_board(puzzle_str), e)
  /\ candidates = <<0, 1, 2, 3, 4, 5, 6, 7, 8>>
  /\ heap = initialize_candidates(cells)
  /\ solver = "none"
  /\ current_state = "none"
  /\ no_strategy_count = 0
  /\ current_strategy = "None"
  /\ values_to_insert = <<>>
  /\ candidates_to_eliminate = {}
  /\ strategies_used = <<>>
  /\ inserted_values = <<>>
  /\ stack = <<>>
  /\ cache = <<>>
  /\ retval = FALSE
  /\ solved = FALSE
  /\ prev = <<>>

BoardPcs ==
  {"grid", "is_valid", "recomputed", "recomputed_again"}

\* Board.is_valid(); retval holds what it returned
Board_is_valid ==
  /\ pc \in BoardPcs
  /\ retval' = validate(cells)
  /\ pc' = "is_valid"
  /\ UNCHANGED <<prev, puzzle_str, solver_type, boardVars, solver, smVars, solverVars,
                 logVars, stack, cache, solved>>

\* Board.update_candidates_backtracking(); pc tells whether the call
\* before it was update_candidates_backtracking() too
Board_update_candidates_backtracking ==
  /\ pc \in BoardPcs
  /\ heap' = update_candidates_backtracking(cells, candidates, heap)
  /\ pc' = IF pc \in {"recomputed", "recomputed_again"} THEN "recomputed_again"
           ELSE "recomputed"
  /\ UNCHANGED <<prev, puzzle_str, solver_type, cells, candidates, solver, smVars,
                 solverVars, logVars, btVars, solved>>

BoardNext ==
  \/ Board_is_valid
  \/ Board_update_candidates_backtracking

BoardSpec ==
  GridInit /\ [][BoardNext]_vars

\* ------------------------------------------------------------------------
\* Properties
\* ------------------------------------------------------------------------

\* the digit written at cell i of the input string (0 for an empty cell)
InputDigit(i) ==
  CHOOSE d \in 0..9 : ToString(d) = puzzle_str[i + 1]

InputGrid ==
  [i \in Cells |-> InputDigit(i)]

\* no empty cell
Complete(g) ==
  \A i \in Cells : g[i] # None

\* I2: in each of the 27 units the filled values are pairwise distinct
UnitsDistinct(g) ==
  \A u \in 0..26 : \A i, j \in UnitCells(u) :
    (i # j /\ g[i] # None) => g[i] # g[j]

\* every cell filled in the input string holds its input digit
AgreesWithInput(g) ==
  \A i \in Cells : InputDigit(i) # 0 => g[i] = InputDigit(i)

\* the digits no cell sharing a unit with cell i holds
LegalDigits(g, i) ==
  Digits \ {g[j] : j \in RowCells(RowOf(i)) \cup ColCells(ColOf(i)) \cup BoxCells(BoxOf(i))}

RECURSIVE Completable(_)
\* the grid can be completed to a full grid without a duplicate in any unit
Completable(g) ==
  LET empty == {i \in Cells : g[i] = None}
      legal == [i \in empty |-> LegalDigits(g, i)]
      fewest == {x \in empty : \A y \in empty : Cardinality(legal[x]) <= Cardinality(legal[y])}
  IN IF empty = {} THEN UnitsDistinct(g)
     ELSE LET i == CHOOSE x \in fewest : TRUE
          IN \E v \in legal[i] : Completable([g EXCEPT ![i] = v])

\* a board exists: construction succeeded
HasBoard ==
  pc \notin {"start", "raised"}

\* C1: for the default puzzle of solve.py a Strategic solve and a
\* Backtracking solve both return solved = true with a complete grid without
\* duplicates, and the grid of a solve equals the grid the solve of the other
\* type returned before it.
C1_BothSolversAgree ==
  (pc = "done" /\ puzzle_str = Puzzle1) =>
    /\ solved
    /\ Complete(cells)
    /\ UnitsDistinct(cells)
    /\ (prev # <<>> /\ prev[1].solver_type # solver_type) =>
         (prev[1].solved /\ prev[1].grid = cells)

C1_Witness ==
  /\ pc = "done"
  /\ puzzle_str = Puzzle1
  /\ solver = "BacktrackingSolver"
  /\ prev # <<>>
  /\ prev[1].solver_type = "Strategic"
  /\ prev[1].grid = cells
  /\ Complete(cells)

\* C2: whenever the Strategic solver's solve() has returned true, the grid
\* has no empty cell, no unit holds a digit twice, and every cell filled in
\* the input string still holds its input digit.
C2_StrategicSolvedIsSound ==
  (pc = "done" /\ solver = "StrategicSolver" /\ solved) =>
    /\ Complete(cells)
    /\ UnitsDistinct(cells)
    /\ AgreesWithInput(cells)

C2_Witness ==
  /\ pc = "done"
  /\ solver = "StrategicSolver"
  /\ solved
  /\ inserted_values # <<>>
  /\ \E i \in Cells : InputDigit(i) = 0 /\ cells[i] # None

\* C3: for a board that passed construction, BacktrackingSolver.solve()
\* returns true exactly when the input grid can be completed to a full grid
\* without duplicates; when it returns true the board holds a complete grid
\* without duplicates that agrees with every input digit; the search itself
\* never raises (an exception is only raised by the construction).
C3_BacktrackingDecidesCompletability ==
  /\ (pc = "done" /\ solver = "BacktrackingSolver") =>
       /\ solved <=> Completable(InputGrid)
       /\ solved => (Complete(cells) /\ UnitsDistinct(cells) /\ AgreesWithInput(cells))
  /\ pc = "raised" => solver = "none"

C3_Witness ==
  /\ pc = "done"
  /\ solver = "BacktrackingSolver"
  /\ solved
  /\ \E k \in DOMAIN cache : ~cache[k]
  /\ \E i \in Cells : InputDigit(i) = 0 /\ cells[i] # None

\* C4 as stated: in every state with a board, after any strategy application
\* or backtracking step, a cell's candidate set is empty if and only if the
\* cell is filled.
C4_I1 ==
  HasBoard => \A i \in Cells : (Cand[i] = {}) <=> (cells[i] # None)

\* C4, the direction that holds: in every state with a board, after any
\* strategy application or backtracking step, the candidate set of a filled
\* cell is empty (an empty cell can have an empty candidate set too).
C4_FilledCellsHaveNoCandidates ==
  HasBoard => \A i \in Cells : cells[i] # None => Cand[i] = {}

C4_Witness ==
  /\ pc = "solve"
  /\ solver = "StrategicSolver"
  /\ inserted_values # <<>>
  /\ \E i \in Cells : InputDigit(i) = 0 /\ cells[i] # None /\ Cand[i] = {}
  /\ \E i \in Cells : cells[i] = None /\ Cand[i] = {}

\* a state of a Strategic solve
StrategicRun ==
  /\ solver = "StrategicSolver"
  /\ pc \in {"solve", "done"}

Remaining ==
  Cardinality({t \in Cells \X Digits : t[2] \in Cand[t[1]]})
    + Cardinality({i \in Cells : cells[i] = None})

\* position of the state machine within one round of the loop
Phase ==
  CASE current_state = "checking_if_solved" /\ no_strategy_count = 0 -> 7
    [] current_state = "finding_best_strategy" /\ no_strategy_count = 0 -> 6
    [] current_state = "checking_if_solved" /\ no_strategy_count # 0 -> 3
    [] current_state = "finding_best_strategy" /\ no_strategy_count # 0 -> 2
    [] current_state = "applying_strategy" -> 1
    [] OTHER -> 0

\* a natural number that every transition of the Strategic loop decreases
StrategicMeasure ==
  IF pc = "solve" THEN 1 + 8 * Remaining + Phase ELSE 0

\* C6: for a board that passed construction the Strategic solve loop ends:
\* each transition of the state machine decreases a natural number, the
\* machine is always in one of its five states (transition_state does not
\* raise), and the solve returns from state solved or unsolvable, with
\* result false when it is unsolvable.
C6_StrategicTerminates ==
  /\ [][(pc = "solve" /\ solver = "StrategicSolver") =>
          (StrategicMeasure' < StrategicMeasure /\ pc' \in {"solve", "done"})]_vars
  /\ []((pc \in {"solve", "done"} /\ solver = "StrategicSolver") =>
          /\ current_state \in {"finding_best_strategy", "applying_strategy",
                                "checking_if_solved", "solved", "unsolvable"}
          /\ pc = "done" => /\ current_state \in {"solved", "unsolvable"}
                            /\ solved <=> (current_state = "solved"))

C6_Witness ==
  /\ pc = "done"
  /\ solver = "StrategicSolver"
  /\ current_state = "unsolvable"
  /\ ~solved
  /\ strategies_used # <<>>
  /\ UnitsDistinct(cells)
  /\ ~Complete(cells)

FilledCount(g) ==
  Cardinality({i \in Cells : g[i] # None})

\* the position of the search in its tree: for each activation of
\* _solve_board the numbers it has still to try, then what is going on
\* below the innermost activation
SearchPosition ==
  CASE pc = "solve" -> <<41>>
    [] pc = "bt_call" -> [k \in 1..Len(stack) |-> 4 * Len(stack[k].nums) + 3] \o <<40>>
    [] pc = "bt_return" -> [k \in 1..Len(stack) |-> 4 * Len(stack[k].nums) + 3] \o <<1>>
    [] pc = "bt_loop" -> [k \in 1..Len(stack) |-> 4 * Len(stack[k].nums) + 3] \o <<0>>
    [] OTHER -> <<>>

\* lexicographic order on sequences of naturals, a missing entry counting 0
SeqLess(a, b) ==
  LET at(q, k) == IF k <= Len(q) THEN q[k] ELSE 0
      n == IF Len(a) > Len(b) THEN Len(a) ELSE Len(b)
  IN \E k \in 1..n : /\ at(a, k) < at(b, k)
                     /\ \A j \in 1..(k - 1) : at(a, j) = at(b, j)

\* C7: for a board that passed construction BacktrackingSolver.solve()
\* returns: each step of the search moves to a lexicographically smaller
\* position in a tree of depth at most 81 and branching at most 9, because
\* at every call of _solve_board the grid holds one more filled cell per
\* activation of _solve_board that waits for the call.
C7_BacktrackingTerminates ==
  /\ [][(solver = "BacktrackingSolver" /\ pc \in {"solve", "bt_call", "bt_loop", "bt_return"}) =>
          /\ SeqLess(SearchPosition', SearchPosition)
          /\ pc' \in {"bt_call", "bt_loop", "bt_return", "done"}]_vars
  /\ []((solver = "BacktrackingSolver" /\ pc \in {"bt_call", "bt_loop", "bt_return"}) =>
          /\ pc = "bt_call" => FilledCount(cells) = FilledCount(InputGrid) + Len(stack)
          /\ pc = "bt_loop" => stack # <<>>
          /\ \A k \in 1..Len(stack) : Len(stack[k].nums) <= 9
          /\ Len(stack) <= 81 - FilledCount(InputGrid))

C7_Witness ==
  /\ pc = "done"
  /\ solver = "BacktrackingSolver"
  /\ ~solved
  /\ \E k \in DOMAIN cache : ~cache[k]
  /\ \E i \in Cells : LegalDigits(InputGrid, i) # {} /\ InputDigit(i) = 0

\* the three conditions on the input string
WellFormed ==
  /\ Len(puzzle_str) = 81
  /\ \A k \in 1..81 : puzzle_str[k] \in {"0", "1", "2", "3", "4", "5", "6", "7", "8", "9"}
  /\ UnitsDistinct(InputGrid)

\* C8: Board construction succeeds exactly when the string has 81
\* characters, each one of 0-9, and no row, column or box holds the same
\* non-zero digit twice; otherwise it fails and no solver has been created,
\* no strategy has been tried and no search step has run.
C8_ConstructionAcceptsWellFormed ==
  pc # "start" =>
    /\ (pc # "raised") <=> WellFormed
    /\ pc = "raised" =>
         /\ solver = "none"
         /\ current_state = "none"
         /\ strategies_used = <<>>
         /\ inserted_values = <<>>
         /\ stack = <<>>
         /\ cache = <<>>

C8_Witness ==
  /\ pc = "raised"
  /\ Len(puzzle_str) = 81
  /\ \A k \in 1..81 : puzzle_str[k] \in DigitChars
  /\ ~UnitsDistinct(InputGrid)

\* the order of the strategies as the claim lists it
ClaimedOrder ==
  <<"Single Candidate Strategy",
    "Hidden Singles Strategy",
    "Pointing Pairs Strategy",
    "Box/Line Intersection Strategy",
    "Naked Pairs Strategy",
    "Hidden Pairs Strategy",
    "Naked Triples Strategy",
    "Hidden Triples Strategy",
    "Naked Quads Strategy",
    "Hidden Quads Strategy",
    "X-Wing Strategy",
    "Swordfish Strategy",
    "Y-Wing Strategy",
    "Simple Coloring Strategy",
    "XYZ-Wing Strategy",
    "Rectangle Elimination Strategy",
    "BUG Strategy">>

\* process() of the named strategy returns a non-empty proposal on the
\* current board
HasProposal(name) ==
  Truthy(name, process(name, cells, Cand))

\* find_strategy has returned and the board is as it was during the call
AfterFind ==
  /\ pc = "solve"
  /\ solver = "StrategicSolver"
  /\ \/ current_state \in {"applying_strategy", "unsolvable"}
     \/ current_state = "checking_if_solved" /\ current_strategy = "None"

\* C9: find_strategy credits the first strategy of the claimed order whose
\* process() returns a non-empty proposal on the board: every strategy
\* before the credited one has no proposal on that board, and "None" is
\* credited only when none of the 17 has a proposal.
C9_FirstInOrderIsCredited ==
  AfterFind =>
    IF current_strategy = "None"
    THEN \A k \in 1..17 : ~HasProposal(ClaimedOrder[k])
    ELSE \E k \in 1..17 :
           /\ ClaimedOrder[k] = current_strategy
           /\ HasProposal(ClaimedOrder[k])
           /\ \A j \in 1..(k - 1) : ~HasProposal(ClaimedOrder[j])
           /\ strategies_used[Len(strategies_used)] = ClaimedOrder[k]

C9_Witness ==
  /\ AfterFind
  /\ current_strategy = "X-Wing Strategy"
  /\ candidates_to_eliminate # {}
  /\ \A j \in 1..10 : ~HasProposal(ClaimedOrder[j])

DistinctIn(g, S) ==
  \A i, j \in S : (i # j /\ g[i] # None) => g[i] # g[j]

\* C11: for every value grid, Board.is_valid() returns true if and only if
\* none of the 9 rows, 9 columns and 9 boxes holds the same filled value
\* twice; empty cells are ignored.
C11_IsValidIffNoDuplicate ==
  pc = "is_valid" =>
    (retval <=> /\ \A r \in 0..8 : DistinctIn(cells, RowCells(r))
                /\ \A c \in 0..8 : DistinctIn(cells, ColCells(c))
                /\ \A b \in 0..8 : DistinctIn(cells, BoxCells(b)))

\* is_valid() has returned false for a grid with empty cells whose rows
\* and boxes are free of duplicates and one of whose columns is not
C11_Witness ==
  /\ pc = "is_valid"
  /\ ~retval
  /\ \E i \in Cells : cells[i] = None
  /\ \A r \in 0..8 : DistinctIn(cells, RowCells(r))
  /\ \A b \in 0..8 : DistinctIn(cells, BoxCells(b))
  /\ \E c \in 0..8 : ~DistinctIn(cells, ColCells(c))

\* C13: a call of update_candidates_backtracking() that directly follows
\* another one, with no change of the value grid in between, leaves the
\* candidate grid as the first call left it, and leaves the value grid
\* unchanged.
C13_RecomputeIdempotent ==
  [][pc' = "recomputed_again" =>
       /\ Grid(candidates', heap') = Grid(candidates, heap)
       /\ cells' = cells]_vars

\* the second call in a row has returned on a grid where some empty cell
\* is left with a single candidate and some with several
C13_Witness ==
  /\ pc = "recomputed_again"
  /\ \E i \in Cells : cells[i] = None /\ Cardinality(Cand[i]) = 1
  /\ \E i \in Cells : cells[i] = None /\ Cardinality(Cand[i]) > 1

\* the value grid written out in row-major order, 0 for an empty cell
ReadBack(g) ==
  [k \in 1..81 |-> ToString(g[k - 1])]

\* C12: round trip: for every accepted string s, the value grid of the
\* Board constructed from s, read back in row-major order with 0 for an
\* empty cell, is s itself; construction fills no cell the string leaves
\* empty.
C12_RoundTrip ==
  pc = "board" =>
    /\ ReadBack(cells) = puzzle_str
    /\ \A i \in Cells : puzzle_str[i + 1] = "0" => cells[i] = None

\* a Board has been constructed from a string with filled and empty cells
C12_Witness ==
  /\ pc = "board"
  /\ \E i \in Cells : puzzle_str[i + 1] = "0"
  /\ \E i \in Cells : puzzle_str[i + 1] \notin {"0", puzzle_str[1]}

\* C14: the state machine starts in finding_best_strategy and takes only
\* these transitions: finding_best_strategy -> applying_strategy when a
\* strategy was found (counter reset to 0); finding_best_strategy ->
\* unsolvable when none was found and the board is invalid or the counter
\* is already >= 1; finding_best_strategy -> checking_if_solved when none
\* was found otherwise (counter incremented); applying_strategy ->
\* checking_if_solved; checking_if_solved -> solved if the board is solved,
\* else -> finding_best_strategy; none out of solved and unsolvable.
C14_Transitions ==
  [][/\ (pc # "solve" /\ pc' = "solve") =>
          current_state' = "finding_best_strategy" /\ no_strategy_count' = 0
     /\ (pc = "solve" /\ solver # "StrategicSolver") =>
          current_state' = current_state /\ no_strategy_count' = no_strategy_count
     /\ (pc = "solve" /\ solver = "StrategicSolver") =>
          LET found == current_strategy' # "None"
              valid == UnitsDistinct(cells)
              same == no_strategy_count' = no_strategy_count
          IN CASE current_state = "finding_best_strategy" ->
                    \/ /\ found
                       /\ current_state' = "applying_strategy"
                       /\ no_strategy_count' = 0
                    \/ /\ ~found
                       /\ ~valid \/ no_strategy_count >= 1
                       /\ current_state' = "unsolvable"
                       /\ same
                    \/ /\ ~found
                       /\ valid /\ no_strategy_count < 1
                       /\ current_state' = "checking_if_solved"
                       /\ no_strategy_count' = no_strategy_count + 1
               [] current_state = "applying_strategy" ->
                    current_state' = "checking_if_solved" /\ same
               [] current_state = "checking_if_solved" ->
                    /\ current_state' = IF Complete(cells) /\ valid THEN "solved"
                                        ELSE "finding_best_strategy"
                    /\ same
               [] OTHER ->
                    current_state' = current_state /\ same /\ pc' = "done"]_vars

\* a run that took the grace period after at least one applied strategy and
\* has ended in unsolvable on a valid board
C14_Witness ==
  /\ pc = "done"
  /\ solver = "StrategicSolver"
  /\ current_state = "unsolvable"
  /\ no_strategy_count = 1
  /\ strategies_used # <<>>
  /\ UnitsDistinct(cells)

\* find_strategy has reported in this Strategic run that no strategy is
\* applicable, and none has been found since
NoneReported ==
  /\ solver = "StrategicSolver"
  /\ pc \in {"solve", "done"}
  /\ current_strategy = "None"
  /\ current_state # "finding_best_strategy" \/ no_strategy_count >= 1

\* C15 as stated: once find_strategy has reported that no strategy is
\* applicable, the run ends in state unsolvable and solve returns false.
C15_GraceIsImmediateFailure ==
  (NoneReported /\ pc = "done") => (~solved /\ current_state = "unsolvable")

\* C15, amended: once find_strategy has reported that no strategy is
\* applicable, no strategy is found later and the board does not change
\* any more, and the run ends in state unsolvable (solve returns false)
\* unless the board is complete and valid at that moment: then no strategy
\* was ever applied and the check of the grace period ends the run in
\* state solved (solve returns true).
C15_GraceEndsByBoardAtReport ==
  [][NoneReported =>
       /\ NoneReported'
       /\ cells' = cells
       /\ Grid(candidates', heap') = Grid(candidates, heap)
       /\ pc' = "done" =>
            IF Complete(cells) /\ UnitsDistinct(cells)
            THEN solved' /\ current_state' = "solved" /\ strategies_used' = <<>>
            ELSE ~solved' /\ current_state' = "unsolvable"]_vars

\* a run has ended after the grace period, unsolvable, on a valid board
\* with empty cells that received insertions before
C15_Witness ==
  /\ NoneReported
  /\ pc = "done"
  /\ no_strategy_count = 1
  /\ ~solved
  /\ inserted_values # <<>>
  /\ UnitsDistinct(cells)
  /\ ~Complete(cells)

\* C16: after a trial placement of the backtracking search has failed and
\* is rolled back, the cell is empty again and the whole candidate grid is
\* the one that was saved for that trial: recomputations made during the
\* trial have not altered the saved grid.
C16_RollbackRestoresSnapshot ==
  [][(pc = "bt_return" /\ stack # <<>> /\ ~retval) =>
       /\ cells'[Top.cell] = None
       /\ \A i \in Cells \ {Top.cell} : cells'[i] = cells[i]
       /\ Grid(candidates', heap') = Top.copied]_vars

\* two different cells that share a row, a column or a box
SharesUnit(a, b) ==
  /\ a # b
  /\ \/ a \div 9 = b \div 9
     \/ a % 9 = b % 9
     \/ a \div 27 = b \div 27 /\ (a % 9) \div 3 = (b % 9) \div 3

\* the cell p is the pivot and w1, w2 are the wings of an XYZ-Wing with the
\* common value z on the board
IsXYZWing(p, w1, w2, z) ==
  /\ w1 # w2
  /\ \A i \in {p, w1, w2} : cells[i] = None
  /\ Cardinality(Cand[p]) = 3
  /\ Cardinality(Cand[w1]) = 2 /\ Cardinality(Cand[w2]) = 2
  /\ Cand[w1] \cup Cand[w2] = Cand[p]
  /\ Cand[w1] \cap Cand[w2] = {z}
  /\ SharesUnit(p, w1) /\ SharesUnit(p, w2)

\* XYZ-Wing is credited and its proposal waits to be applied
XYZWingProposed ==
  /\ pc = "solve"
  /\ solver = "StrategicSolver"
  /\ current_state = "applying_strategy"
  /\ current_strategy = "XYZ-Wing Strategy"

\* C18: every elimination proposed by XYZ-Wing removes the common value Z
\* of an XYZ-Wing on the board only from cells that share a unit with the
\* pivot and with each of the two wings and that are neither the pivot nor
\* a wing.
C18_XYZWingEliminations ==
  XYZWingProposed =>
    \E p, w1, w2 \in Cells : \E z \in Digits :
      /\ IsXYZWing(p, w1, w2, z)
      /\ \A e \in candidates_to_eliminate :
           LET i == e[1] * 9 + e[2]
           IN /\ e[3] = z
              /\ i \notin {p, w1, w2}
              /\ SharesUnit(i, p) /\ SharesUnit(i, w1) /\ SharesUnit(i, w2)

RECURSIVE TwoCompletions(_), TryDigits(_, _, _, _)
\* the complete grids without a duplicate in any unit that extend g, as a
\* sequence without repetition: all of them if they are fewer than two,
\* else two or more of them
TwoCompletions(g) ==
  LET empty == {i \in Cells : g[i] = None}
      legal == [i \in empty |-> LegalDigits(g, i)]
      fewest == {x \in empty : \A y \in empty : Cardinality(legal[x]) <= Cardinality(legal[y])}
  IN IF empty = {} THEN (IF UnitsDistinct(g) THEN <<g>> ELSE <<>>)
     ELSE LET i == CHOOSE x \in fewest : TRUE
          IN TryDigits(g, i, legal[i], <<>>)

\* the completions of g with cell i set to the digits of vs in turn, added
\* to acc until there are two
TryDigits(g, i, vs, acc) ==
  IF vs = {} \/ Len(acc) >= 2 THEN acc
  ELSE LET v == CHOOSE x \in vs : \A y \in vs : x <= y
       IN TryDigits(g, i, vs \ {v}, acc \o TwoCompletions([g EXCEPT ![i] = v]))

\* the solutions of the strings of Corpus that have exactly one
Puzzle1Solution ==
  <<"3","6","9","2","1","8","4","7","5","2","1","5","7","4","9","8","6","3","4","8","7",
    "6","3","5","9","1","2","7","5","4","8","6","1","2","3","9","6","3","1","9","2","4",
    "7","5","8","9","2","8","3","5","7","6","4","1","1","7","3","4","8","2","5","9","6",
    "5","4","2","1","9","6","3","8","7","8","9","6","5","7","3","1","2","4">>

UniqueXYZWingSolution ==
  <<"7","2","6","5","3","8","9","1","4","5","8","3","4","1","9","2","6","7","4","9","1",
    "7","6","2","8","3","5","9","1","5","2","4","6","3","7","8","2","6","4","8","7","3",
    "1","5","9","8","3","7","9","5","1","6","4","2","3","7","2","1","8","5","4","9","6",
    "1","5","8","6","9","4","7","2","3","6","4","9","3","2","7","5","8","1">>

UniqueSimpleColoringSolution ==
  <<"1","7","2","3","9","4","6","8","5","4","3","9","6","8","5","7","2","1","5","6","8",
    "7","2","1","3","9","4","2","1","6","4","7","9","5","3","8","8","5","3","1","6","2",
    "4","7","9","9","4","7","5","3","8","1","6","2","6","2","5","9","1","7","8","4","3",
    "7","9","1","8","4","3","2","5","6","3","8","4","2","5","6","9","1","7">>

KnownSolutions ==
  {Puzzle1Solution, SolvedGrid, UniqueXYZWingSolution, UniqueSimpleColoringSolution}

\* the grid a string of 81 digits denotes
GridOf(str) ==
  [i \in Cells |-> CHOOSE d \in 0..9 : ToString(d) = str[i + 1]]

\* S is a solution of the input puzzle
SolvesInput(S) ==
  /\ Complete(S)
  /\ UnitsDistinct(S)
  /\ AgreesWithInput(S)

\* C17: soundness of deduction: for a puzzle with exactly one solution S,
\* in every state reachable by the Strategic solver every filled cell
\* holds its value in S and the candidate set of every empty cell contains
\* its value in S.  Stated for the puzzles of Corpus; that S is the only
\* solution is computed once a state disagrees with S.
C17_DeductionIsSound ==
  StrategicRun =>
    \A str \in KnownSolutions :
      LET S == GridOf(str)
      IN SolvesInput(S) =>
           \/ \A i \in Cells :
                IF cells[i] # None THEN cells[i] = S[i] ELSE S[i] \in Cand[i]
           \/ TwoCompletions(InputGrid) # <<S>>

\* the cell an item <<row, col, value>> of a proposal names
ItemCell(e) ==
  e[1] * 9 + e[2]

\* C19: the Board (value grid and candidate grid) changes only in the
\* applying_strategy step: find_strategy with every process() call and
\* checking_if_solved leave both grids unchanged; one applying_strategy
\* step commits every item of exactly one proposal of exactly one kind,
\* insertions or eliminations, and leaves no proposal behind.
C19_OnlyApplyChangesBoard ==
  [][(pc = "solve" /\ solver = "StrategicSolver") =>
       IF current_state = "applying_strategy"
       THEN LET elims == candidates_to_eliminate
                ins == values_to_insert
            IN /\ (elims # {}) # (ins # <<>>)
               /\ elims # {} =>
                    /\ cells' = cells
                    /\ \A i \in Cells :
                         Grid(candidates', heap')[i] =
                           Cand[i] \ {e[3] : e \in {x \in elims : ItemCell(x) = i}}
                    /\ inserted_values' = inserted_values
               /\ ins # <<>> =>
                    /\ \A k \in 1..Len(ins) :
                         \E m \in k..Len(ins) :
                           /\ ItemCell(ins[m]) = ItemCell(ins[k])
                           /\ cells'[ItemCell(ins[k])] = ins[m][3]
                    /\ \A i \in Cells :
                         (\A k \in 1..Len(ins) : ItemCell(ins[k]) # i) => cells'[i] = cells[i]
                    /\ inserted_values' = inserted_values \o ins
               /\ values_to_insert' = <<>>
               /\ candidates_to_eliminate' = {}
       ELSE /\ cells' = cells
            /\ Grid(candidates', heap') = Cand]_vars

\* an elimination proposal has been applied in a run that applied
\* insertions before, and cells with several candidates remain
C19_Witness ==
  /\ pc = "solve"
  /\ solver = "StrategicSolver"
  /\ current_state = "checking_if_solved"
  /\ current_strategy \notin {"None"} \cup ValueFinders
  /\ inserted_values # <<>>
  /\ \E i \in Cells : cells[i] = None /\ Cardinality(Cand[i]) >= 2

\* C20: inserting value v at (r, c) in the Strategic pipeline sets that
\* cell to v, empties its candidate set, removes v from the candidate set
\* of each of its 20 peers and changes nothing else; an insertion proposal
\* is applied item by item, so after the step every cell named holds its
\* value and has no candidates, every other cell has lost exactly the
\* values inserted at its peers, and no other cell value has changed.
C20_InsertFrame ==
  [][(pc = "solve" /\ solver = "StrategicSolver"
        /\ current_state = "applying_strategy" /\ values_to_insert # <<>>) =>
       LET ins == values_to_insert
           named == {ItemCell(ins[k]) : k \in 1..Len(ins)}
           last(i) == CHOOSE k \in 1..Len(ins) :
                        /\ ItemCell(ins[k]) = i
                        /\ \A m \in (k + 1)..Len(ins) : ItemCell(ins[m]) # i
       IN /\ \A i \in Cells : Cardinality({j \in Cells : SharesUnit(i, j)}) = 20
          /\ \A i \in named :
               /\ cells'[i] = ins[last(i)][3]
               /\ Grid(candidates', heap')[i] = {}
          /\ \A i \in Cells \ named :
               /\ cells'[i] = cells[i]
               /\ Grid(candidates', heap')[i] =
                    Cand[i] \ {ins[k][3] : k \in {m \in 1..Len(ins) :
                                                    SharesUnit(i, ItemCell(ins[m]))}}]_vars

\* a single insertion has been applied that took its value from the
\* candidates of a peer and left a cell outside its units with candidates
C20_Witness ==
  /\ pc = "solve"
  /\ solver = "StrategicSolver"
  /\ current_state = "checking_if_solved"
  /\ current_strategy \in ValueFinders
  /\ inserted_values # <<>>
  /\ LET e == inserted_values[Len(inserted_values)]
     IN /\ cells[ItemCell(e)] = e[3]
        /\ Cand[ItemCell(e)] = {}
        /\ \E j \in Cells : SharesUnit(j, ItemCell(e)) /\ cells[j] = None /\ Cand[j] # {}
        /\ \E j \in Cells : ~SharesUnit(j, ItemCell(e)) /\ j # ItemCell(e) /\ e[3] \in Cand[j]

\* C21: in every state reachable by the Strategic solver, no candidate of
\* an empty cell is a value currently filled in the cell's row, column or
\* box.
C21_CandidatesAvoidPlacedPeers ==
  StrategicRun =>
    \A i \in Cells : cells[i] = None =>
      \A j \in Cells : (SharesUnit(i, j) /\ cells[j] # None) => cells[j] \notin Cand[i]

\* an insertion has been applied, and an empty peer of the inserted cell
\* still has candidates
C21_Witness ==
  /\ StrategicRun
  /\ inserted_values # <<>>
  /\ LET e == inserted_values[Len(inserted_values)]
     IN /\ cells[ItemCell(e)] = e[3]
        /\ \E j \in Cells : /\ SharesUnit(j, ItemCell(e))
                            /\ cells[j] = None
                            /\ Cardinality(Cand[j]) >= 2

\* a proposal waits to be applied
ProposalPending ==
  /\ pc = "solve"
  /\ solver = "StrategicSolver"
  /\ current_state = "applying_strategy"

\* number of empty cells plus total size of all candidate sets
EmptyPlusCandidates(g, cd) ==
  Cardinality({i \in Cells : g[i] = None})
    + Cardinality({<<i, v>> \in Cells \X Digits : v \in cd[i]})

\* C22: every proposal applied by the Strategic solver makes progress: the
\* applying_strategy step strictly decreases the number of empty cells plus
\* the total size of all candidate sets, every proposed insertion targets
\* an empty cell and every proposed elimination names a candidate present
\* in its cell.
C22_EveryProposalProgresses ==
  [][ProposalPending =>
       /\ EmptyPlusCandidates(cells', Grid(candidates', heap'))
            < EmptyPlusCandidates(cells, Cand)
       /\ \A k \in 1..Len(values_to_insert) : cells[ItemCell(values_to_insert[k])] = None
       /\ \A e \in candidates_to_eliminate : e[3] \in Cand[ItemCell(e)]]_vars

\* an elimination proposal of several items has been applied after an
\* insertion proposal of several items
C22_Witness ==
  /\ pc = "solve"
  /\ solver = "StrategicSolver"
  /\ current_state = "checking_if_solved"
  /\ current_strategy \notin {"None"} \cup ValueFinders
  /\ Len(inserted_values) >= 2
  /\ \E i \in Cells : cells[i] = None /\ Cand[i] # {}
  /\ EmptyPlusCandidates(cells, Cand) + Len(inserted_values) + 2
       <= EmptyPlusCandidates(InputGrid, [i \in Cells |-> IF InputGrid[i] = None
                                                          THEN LegalDigits(InputGrid, i)
                                                          ELSE {}])

\* the empty cells of box b that hold v as a candidate on the current board
BoxHolders(b, v) ==
  {i \in Cells : /\ ((i \div 9) \div 3) * 3 + ((i % 9) \div 3) = b
                 /\ cells[i] = None
                 /\ v \in Cand[i]}

\* C23: when find_strategy credits Box/Line Intersection, every proposed
\* elimination of v from a cell comes from a box, not the cell's own, whose
\* holders of v lie on the cell's row or column and number at least 4; and
\* whenever Box/Line Intersection has a proposal on the board, for a
\* candidate held by 1, 2 or 3 cells of its box, a strategy before it is
\* credited.
C23_BoxLineCreditedOnlyFromFour ==
  AfterFind =>
    /\ current_strategy = "Box/Line Intersection Strategy" =>
         \A e \in candidates_to_eliminate :
           \E b \in 0..8 :
             LET H == BoxHolders(b, e[3])
             IN /\ ItemCell(e) \notin {i \in Cells :
                      ((i \div 9) \div 3) * 3 + ((i % 9) \div 3) = b}
                /\ Cardinality(H) >= 4
                /\ \/ \A i \in H : i \div 9 = e[1]
                   \/ \A i \in H : i % 9 = e[2]
    /\ HasProposal("Box/Line Intersection Strategy") =>
         current_strategy \in {"Single Candidate Strategy",
                               "Hidden Singles Strategy",
                               "Pointing Pairs Strategy"}

C23_Witness ==
  /\ AfterFind
  /\ current_strategy = "Pointing Pairs Strategy"
  /\ HasProposal("Box/Line Intersection Strategy")
  /\ \E e \in candidates_to_eliminate : \E b \in 0..8 :
       /\ Cardinality(BoxHolders(b, e[3])) = 3
       /\ \A i \in BoxHolders(b, e[3]) : i \div 9 = e[1] \/ i % 9 = e[2]

\* the cells of the row, of the column and of the box of cell i
LinesOf(i) ==
  {{j \in Cells : j \div 9 = i \div 9},
   {j \in Cells : j % 9 = i % 9},
   {j \in Cells : /\ (j \div 9) \div 3 = (i \div 9) \div 3
                  /\ (j % 9) \div 3 = (i % 9) \div 3}}

\* the empty cells whose number of candidates is not two
NonBivalue ==
  {i \in Cells : cells[i] = None /\ Cardinality(Cand[i]) # 2}

\* BUG's process() would return an insertion on the current board: one
\* empty cell alone has a number of candidates other than two, and one of
\* its candidates is in no other candidate set of a unit of the cell
BUGWouldInsert ==
  /\ Cardinality(NonBivalue) = 1
  /\ \E i \in NonBivalue : \E v \in Cand[i] : \E L \in LinesOf(i) :
       \A j \in L \ {i} : v \notin Cand[j]

\* C24: in a Strategic run strategies_used never contains "BUG Strategy",
\* and at every return of find_strategy on a board where BUG's process()
\* would return an insertion the credited strategy is Single Candidate or
\* Hidden Singles.
C24_BUGNeverCredited ==
  StrategicRun =>
    /\ \A k \in 1..Len(strategies_used) : strategies_used[k] # "BUG Strategy"
    /\ (AfterFind /\ BUGWouldInsert) =>
         current_strategy \in {"Single Candidate Strategy",
                               "Hidden Singles Strategy"}

C24_Witness ==
  /\ AfterFind
  /\ BUGWouldInsert
  /\ \A i \in NonBivalue : Cardinality(Cand[i]) >= 3
  /\ current_strategy = "Hidden Singles Strategy"
  /\ Len(values_to_insert) = 1

\* the number of empty cells of a grid
EmptyCount(g) ==
  Cardinality({i \in Cells : g[i] = None})

\* the grid after writing the entries of a list of insertions, in order,
\* on grid g
Replay(g, iv) ==
  [i \in Cells |->
     IF \E k \in 1..Len(iv) : ItemCell(iv[k]) = i
     THEN LET last == CHOOSE k \in 1..Len(iv) :
                        /\ ItemCell(iv[k]) = i
                        /\ \A m \in (k + 1)..Len(iv) : ItemCell(iv[m]) # i
          IN iv[last][3]
     ELSE g[i]]

\* C25: when a Strategic solve has returned, every entry of inserted_values
\* names a cell that is empty in the input, no two entries name the same
\* cell, the number of entries is the number of empty cells of the input
\* minus the number of empty cells of the final grid (the empty_cells of
\* the result), and writing the entries in order on the input grid gives
\* the final grid.
C25_InsertedValuesReplay ==
  (pc = "done" /\ solver_type = "Strategic") =>
    /\ \A k \in 1..Len(inserted_values) :
         /\ inserted_values[k][3] \in Digits
         /\ InputGrid[ItemCell(inserted_values[k])] = None
    /\ \A k, m \in 1..Len(inserted_values) :
         ItemCell(inserted_values[k]) = ItemCell(inserted_values[m]) => k = m
    /\ Len(inserted_values) = EmptyCount(InputGrid) - EmptyCount(cells)
    /\ Replay(InputGrid, inserted_values) = cells

C25_Witness ==
  /\ pc = "done"
  /\ solver_type = "Strategic"
  /\ Len(inserted_values) >= 3
  /\ EmptyCount(cells) > 0
  /\ \E k \in 1..Len(strategies_used) :
       strategies_used[k] = "Single Candidate Strategy"
  /\ \E k \in 1..Len(strategies_used) :
       strategies_used[k] \notin ValueFinders

\* the empty cells with exactly one candidate on the current board
SinglesOnBoard ==
  {i \in Cells : cells[i] = None /\ Cardinality(Cand[i]) = 1}

\* the eliminations that the candidates of box b held by two or three
\* cells of the box on one row or one column give outside the box
PointingFrom(b) ==
  {e \in (0..8) \X (0..8) \X Digits :
     LET H == BoxHolders(b, e[3])
     IN /\ ((e[1] \div 3) * 3 + (e[2] \div 3)) # b
        /\ cells[ItemCell(e)] = None
        /\ e[3] \in Cand[ItemCell(e)]
        /\ Cardinality(H) \in {2, 3}
        /\ \/ \A i \in H : i \div 9 = e[1]
           \/ \A i \in H : i % 9 = e[2]}

\* C26 as claimed: a proposal holds the deductions of one find only; a
\* credited Single Candidate proposes one insertion, the first cell with
\* one candidate in scan order, and a credited Pointing Pairs proposes
\* eliminations of one candidate on one line.
C26_ProposalIsOneFind ==
  AfterFind =>
    /\ current_strategy = "Single Candidate Strategy" =>
         /\ Len(values_to_insert) = 1
         /\ \A i \in SinglesOnBoard : ItemCell(values_to_insert[1]) <= i
    /\ current_strategy = "Pointing Pairs Strategy" =>
         \A e, f \in candidates_to_eliminate :
           /\ e[3] = f[3]
           /\ e[1] = f[1] \/ e[2] = f[2]

\* C26 amended: every process() stops at its first find, and a find can
\* hold several deductions.  A credited Single Candidate proposes every
\* empty cell with exactly one candidate, once, in row-major order, with
\* that candidate; Hidden Singles proposes one insertion; Pointing Pairs
\* proposes exactly the eliminations of all candidates of the first box
\* that gives any; a proposal of a pair, hidden triple or quad strategy
\* lies in one unit; a proposal of X-Wing, Swordfish, Y-Wing, XYZ-Wing or
\* Simple Coloring names one digit; a proposal of Rectangle Elimination
\* names one cell.
C26_FirstFindMayHoldSeveral ==
  AfterFind =>
    /\ current_strategy = "Single Candidate Strategy" =>
         /\ Len(values_to_insert) = Cardinality(SinglesOnBoard)
         /\ \A k \in 1..Len(values_to_insert) :
              /\ ItemCell(values_to_insert[k]) \in SinglesOnBoard
              /\ Cand[ItemCell(values_to_insert[k])] = {values_to_insert[k][3]}
              /\ k > 1 => ItemCell(values_to_insert[k - 1])
                            < ItemCell(values_to_insert[k])
    /\ current_strategy = "Hidden Singles Strategy" =>
         Len(values_to_insert) = 1
    /\ current_strategy = "Pointing Pairs Strategy" =>
         \E b \in 0..8 :
           /\ candidates_to_eliminate = PointingFrom(b)
           /\ \A a \in 0..(b - 1) : PointingFrom(a) = {}
    /\ current_strategy \in {"Naked Pairs Strategy", "Hidden Pairs Strategy",
                             "Hidden Triples Strategy", "Naked Quads Strategy",
                             "Hidden Quads Strategy"} =>
         \E i \in Cells : \E L \in LinesOf(i) :
           \A e \in candidates_to_eliminate : ItemCell(e) \in L
    /\ current_strategy \in {"X-Wing Strategy", "Swordfish Strategy",
                             "Y-Wing Strategy", "XYZ-Wing Strategy",
                             "Simple Coloring Strategy"} =>
         \A e, f \in candidates_to_eliminate : e[3] = f[3]
    /\ current_strategy = "Rectangle Elimination Strategy" =>
         \A e, f \in candidates_to_eliminate : ItemCell(e) = ItemCell(f)

C26_Witness ==
  /\ AfterFind
  /\ current_strategy = "Single Candidate Strategy"
  /\ Len(values_to_insert) >= 2
  /\ Cardinality(SinglesOnBoard) = Len(values_to_insert)
  /\ \E k \in 1..Len(strategies_used) :
       strategies_used[k] = "Pointing Pairs Strategy"

\* a call of _solve_board returns without a new entry in the cache: the
\* value grid was found in the cache
CacheHit ==
  pc = "bt_call" /\ pc' = "bt_return" /\ cache' = cache

FewestFirst ==
  CHOOSE i \in Cells :
    /\ cells[i] = None
    /\ \A j \in Cells : cells[j] = None =>
         \/ Cardinality(Cand[i]) < Cardinality(Cand[j])
         \/ Cardinality(Cand[i]) = Cardinality(Cand[j]) /\ i <= j

\* the sequence lists the elements of S in ascending order
Ascending(seq, S) ==
  /\ Len(seq) = Cardinality(S)
  /\ \A v \in S : \E k \in 1..Len(seq) : seq[k] = v
  /\ \A k \in 1..(Len(seq) - 1) : seq[k] < seq[k + 1]

RECURSIVE FirstSolution(_), FirstFrom(_, _, _)
\* the first complete grid of the search that branches on the empty cell
\* with the fewest legal digits, first in row-major order among equals,
\* and tries its legal digits in ascending order: <<grid>>, or <<>> when
\* the search finds none
FirstSolution(g) ==
  LET empty == {i \in Cells : g[i] = None}
  IN IF empty = {} THEN <<g>>
     ELSE LET i == CHOOSE x \in empty : \A y \in empty :
                     \/ Cardinality(LegalDigits(g, x)) < Cardinality(LegalDigits(g, y))
                     \/ /\ Cardinality(LegalDigits(g, x)) = Cardinality(LegalDigits(g, y))
                        /\ x <= y
          IN FirstFrom(g, i, LegalDigits(g, i))

FirstFrom(g, i, vs) ==
  IF vs = {} THEN <<>>
  ELSE LET v == CHOOSE x \in vs : \A y \in vs : x <= y
           r == FirstSolution([g EXCEPT ![i] = v])
       IN IF r # <<>> THEN r ELSE FirstFrom(g, i, vs \ {v})

\* C28: a call of _solve_board that does not return at once takes as its
\* cell the empty cell with the fewest candidates, the first in row-major
\* order among equals, and as its numbers the candidates of that cell in
\* ascending order; every trial takes the first number not yet tried and
\* writes it into that cell; and the grid of a solve that returns true is
\* the first complete grid in that search order.
C28_SearchOrder ==
  [][(solver = "BacktrackingSolver" /\ pc \in {"bt_call", "bt_loop", "bt_return"}) =>
       /\ (pc = "bt_call" /\ pc' = "bt_loop") =>
            /\ Len(stack') = Len(stack) + 1
            /\ stack'[Len(stack')].cell = FewestFirst
            /\ Ascending(stack'[Len(stack')].nums, Cand[FewestFirst])
       /\ (pc = "bt_loop" /\ pc' \in {"bt_loop", "bt_call"}) =>
            /\ stack'[Len(stack')].cell = stack[Len(stack)].cell
            /\ stack[Len(stack)].nums =
                  <<stack[Len(stack)].nums[1]>> \o stack'[Len(stack')].nums
            /\ pc' = "bt_call" =>
                 cells' = [cells EXCEPT ![stack[Len(stack)].cell] =
                                           stack[Len(stack)].nums[1]]
       /\ (pc' = "done" /\ retval) =>
            FirstSolution(InputGrid) = <<cells'>>]_vars

C28_Witness ==
  /\ solver = "BacktrackingSolver"
  /\ pc = "done"
  /\ solved
  /\ \E k \in DOMAIN cache : ~cache[k]
  /\ Len(TwoCompletions(InputGrid)) = 2
  /\ FirstSolution(InputGrid) = <<cells>>

\* the columns of row r whose empty cell holds d, and the rows of column c
RowHolders(r, d) ==
  {c \in 0..8 : cells[r * 9 + c] = None /\ d \in Cand[r * 9 + c]}

ColHolders(c, d) ==
  {r \in 0..8 : cells[r * 9 + c] = None /\ d \in Cand[r * 9 + c]}

\* d occupies exactly the same two columns in rows r1 < r2 and nowhere
\* else in those rows; the same for columns c1 < c2
IsRowXWing(d, r1, r2) ==
  /\ r1 < r2
  /\ Cardinality(RowHolders(r1, d)) = 2
  /\ RowHolders(r1, d) = RowHolders(r2, d)

IsColXWing(d, c1, c2) ==
  /\ c1 < c2
  /\ Cardinality(ColHolders(c1, d)) = 2
  /\ ColHolders(c1, d) = ColHolders(c2, d)

\* d in the two columns of the X-Wing in every other row whose empty cell
\* holds it
RowXWingEliminations(d, r1, r2) ==
  {e \in (0..8) \X (0..8) \X {d} :
     /\ e[1] \notin {r1, r2}
     /\ e[2] \in RowHolders(r1, d)
     /\ cells[ItemCell(e)] = None
     /\ d \in Cand[ItemCell(e)]}

\* a smaller candidate, or the same candidate and an earlier row pair
EarlierXWing(d1, a1, a2, d, r1, r2) ==
  \/ d1 < d
  \/ d1 = d /\ (a1 < r1 \/ (a1 = r1 /\ a2 < r2))

\* C29 as claimed: on every board of a Strategic run, for a row X-Wing of
\* d in rows r1, r2 with no X-Wing of a smaller candidate and no row
\* X-Wing of d on an earlier row pair, process() of X-Wing returns exactly
\* the eliminations of d in the two columns outside rows r1, r2.
C29_FirstXWingIsReturned ==
  StrategicRun =>
    \A d \in Digits : \A r1, r2 \in 0..8 :
      ( /\ IsRowXWing(d, r1, r2)
        /\ \A d1 \in Digits : \A a1, a2 \in 0..8 :
             /\ (IsRowXWing(d1, a1, a2) => ~EarlierXWing(d1, a1, a2, d, r1, r2))
             /\ (IsColXWing(d1, a1, a2) => d1 >= d) )
      => XWing_process(cells, Cand) = RowXWingEliminations(d, r1, r2)

\* C29 amended: on every board of a Strategic run, for a row X-Wing of d in
\* rows r1, r2 that has something to eliminate, when every row X-Wing of a
\* smaller candidate or of d on an earlier row pair has nothing to
\* eliminate, process() of X-Wing returns exactly the eliminations of d in
\* the two columns outside rows r1, r2, and none inside those rows.
C29_FirstUsefulXWingIsReturned ==
  StrategicRun =>
    \A d \in Digits : \A r1, r2 \in 0..8 :
      ( /\ IsRowXWing(d, r1, r2)
        /\ RowXWingEliminations(d, r1, r2) # {}
        /\ \A d1 \in Digits : \A a1, a2 \in 0..8 :
             (IsRowXWing(d1, a1, a2) /\ EarlierXWing(d1, a1, a2, d, r1, r2))
               => RowXWingEliminations(d1, a1, a2) = {} )
      => /\ XWing_process(cells, Cand) = RowXWingEliminations(d, r1, r2)
         /\ \A e \in XWing_process(cells, Cand) : e[1] \notin {r1, r2}

C29_Witness ==
  /\ AfterFind
  /\ current_strategy = "X-Wing Strategy"
  /\ \E d \in Digits : \E r1, r2 \in 0..8 :
       /\ IsRowXWing(d, r1, r2)
       /\ candidates_to_eliminate = RowXWingEliminations(d, r1, r2)
       /\ candidates_to_eliminate # {}
       /\ \E d1 \in Digits : \E a1, a2 \in 0..8 :
            /\ IsRowXWing(d1, a1, a2)
            /\ EarlierXWing(d1, a1, a2, d, r1, r2)
            /\ RowXWingEliminations(d1, a1, a2) = {}

\* the cells of unit u in scan order of the units: rows 0..8, then columns
\* 0..8, then boxes 0..8
ScanUnit(u) ==
  {i \in Cells :
     IF u < 9 THEN i \div 9 = u
     ELSE IF u < 18 THEN i % 9 = u - 9
     ELSE ((i \div 9) \div 3) * 3 + ((i % 9) \div 3) = u - 18}

\* the eliminations of the two candidates of cell i from the empty cells
\* of unit u other than i and j that hold them
NakedPairEliminations(u, i, j) ==
  {e \in (0..8) \X (0..8) \X Cand[i] :
     /\ ItemCell(e) \in ScanUnit(u) \ {i, j}
     /\ cells[ItemCell(e)] = None
     /\ e[3] \in Cand[ItemCell(e)]}

\* the naked pairs of the board with something to eliminate: unit u, cells
\* i < j of u, both empty with the same two candidates
UsefulNakedPairs ==
  UNION {LET two == {i \in ScanUnit(u) : cells[i] = None /\ Cardinality(Cand[i]) = 2}
         IN {t \in {u} \X two \X two :
               /\ t[2] < t[3]
               /\ Cand[t[2]] = Cand[t[3]]
               /\ NakedPairEliminations(u, t[2], t[3]) # {}} : u \in 0..26}

\* t comes before s in scan order: an earlier unit, or in the same unit an
\* earlier pair
PairBefore(t, s) ==
  \/ t[1] < s[1]
  \/ t[1] = s[1] /\ (t[2] < s[2] \/ (t[2] = s[2] /\ t[3] < s[3]))

\* C30: on every board of a Strategic run with a naked pair that has
\* something to eliminate, process() of Naked Pairs returns, for the first
\* such unit and pair in scan order, exactly the eliminations of the two
\* candidates from every other empty cell of the unit that holds them,
\* and no elimination in the two cells of the pair.
C30_NakedPairsEliminations ==
  StrategicRun =>
    LET useful == UsefulNakedPairs
    IN IF useful = {} THEN NakedPairs_process(cells, Cand) = {}
       ELSE LET f == CHOOSE t \in useful : \A s \in useful : ~PairBefore(s, t)
            IN /\ NakedPairs_process(cells, Cand) = NakedPairEliminations(f[1], f[2], f[3])
               /\ \A e \in NakedPairs_process(cells, Cand) : ItemCell(e) \notin {f[2], f[3]}

C30_Witness ==
  /\ AfterFind
  /\ current_strategy = "Naked Pairs Strategy"
  /\ Cardinality(UsefulNakedPairs) >= 2
  /\ \E t \in UsefulNakedPairs :
       /\ candidates_to_eliminate = NakedPairEliminations(t[1], t[2], t[3])
       /\ Cardinality(candidates_to_eliminate) >= 2
       /\ \E s \in UsefulNakedPairs :
            NakedPairEliminations(s[1], s[2], s[3]) # candidates_to_eliminate

====
